---- MODULE Spec2Model ----
(***************************************************************************)
(* RAMSIS core: the prefect state handlers of the forecast engine          *)
(* (RAMSIS/core/engine/state_handlers.py), the Worker that runs their      *)
(* slow callbacks on the thread pool, and the status aggregation of        *)
(* stages and scenarios.                                                   *)
(*                                                                         *)
(* Three specifications share the variables:                               *)
(*   Spec      one engine.run() of the seismicity flow with its handlers   *)
(*             and Workers;                                                *)
(*   SpecAgg   the two scenario_stage_status functions applied to          *)
(*             scenarios drawn from bounded sets;                          *)
(*   SpecSnap  the catalog and well snapshot handlers and their Workers.   *)
(***************************************************************************)
EXTENDS Integers, Sequences, FiniteSets, TLC

\* ------------------------------------------------------------------ bounds
MaxRuns == 2

MaxHazardRuns == 1
MaxModels == 3

RunIds == 1..MaxRuns

HazardRunIds == 1..MaxHazardRuns

\* --------------------------------------------------------- data model names
EStatus == {"PENDING", "RUNNING", "DISPATCHED", "COMPLETE", "ERROR"}

SEISMICITY == "SEISMICITY"

HAZARD == "HAZARD"

EStage == {SEISMICITY, HAZARD}

\* the runs of a stage that are enabled
EnabledRuns(stage) == {r \in DOMAIN stage.runs : stage.runs[r].enabled}

\* the stages of a scenario that are enabled
EnabledStages(scenario) == {k \in DOMAIN scenario.stages : scenario.stages[k].enabled}

\* all([model.status.state == COMPLETE for model in enabled runs])
model_success(stage) == \A r \in EnabledRuns(stage) : stage.runs[r].status = "COMPLETE"

\* mutant of StageStatusOf: the enabled filter is dropped, every run counts
StageStatusOfAllRuns(stage) ==
    IF \A r \in DOMAIN stage.runs : stage.runs[r].status = "COMPLETE"
    THEN "COMPLETE" ELSE "ERROR"

\* the stage part shared by both handlers: COMPLETE iff model_success, else ERROR
StageStatusOf(stage) == IF model_success(stage) THEN "COMPLETE" ELSE "ERROR"

SetStageStatus(scenario, key) ==
    [scenario EXCEPT !.stages[key].status = StageStatusOf(scenario.stages[key])]

\* mutant of ForecastScenarioStatusOf: the ERROR and PENDING branches swapped
ForecastScenarioStatusOfSwapped(scenario) ==
    LET states == {scenario.stages[k].status : k \in EnabledStages(scenario)}
    IN  IF \A s \in states : s = "COMPLETE" THEN "COMPLETE"
        ELSE IF \E s \in states : s = "PENDING" THEN "RUNNING"
        ELSE IF \E s \in states : s = "ERROR" THEN "ERROR"
        ELSE scenario.status

\* ForecastHandler: the if / elif / elif chain over the enabled stages' states;
\* when no branch applies the scenario status is left as it was
ForecastScenarioStatusOf(scenario) ==
    LET states == {scenario.stages[k].status : k \in EnabledStages(scenario)}
    IN  IF \A s \in states : s = "COMPLETE" THEN "COMPLETE"
        ELSE IF \E s \in states : s = "ERROR" THEN "ERROR"
        ELSE IF \E s \in states : s = "PENDING" THEN "RUNNING"
        ELSE scenario.status

\* mutant of HazardScenarioStatusOf: the seismicity handler's chain is used
HazardScenarioStatusOfChain(scenario) ==
    LET states == {scenario.stages[k].status : k \in EnabledStages(scenario)}
    IN  IF \A s \in states : s = "COMPLETE" THEN "COMPLETE"
        ELSE IF \E s \in states : s = "ERROR" THEN "ERROR"
        ELSE IF \E s \in states : s = "PENDING" THEN "RUNNING"
        ELSE scenario.status

\* HazardHandler: COMPLETE iff every enabled stage is COMPLETE, else ERROR
HazardScenarioStatusOf(scenario) ==
    IF \A k \in EnabledStages(scenario) : scenario.stages[k].status = "COMPLETE"
    THEN "COMPLETE" ELSE "ERROR"

\* ForecastHandler.scenario_stage_status(scenario)
ForecastScenarioStageStatus(scenario) ==
    LET s1 == SetStageStatus(scenario, SEISMICITY)
    IN  [s1 EXCEPT !.status = ForecastScenarioStatusOf(s1)]

\* HazardHandler.scenario_stage_status(scenario)
HazardScenarioStageStatus(scenario) ==
    LET s1 == SetStageStatus(scenario, HAZARD)
    IN  [s1 EXCEPT !.status = HazardScenarioStatusOf(s1)]


\* ------------------------------------------------------------------- state
VARIABLES
    forecastStatus,   \* Forecast.status.state as persisted
    scenario,         \* forecast.scenarios[0] with its stages and their runs
    reserved,         \* the synchronous_thread token: is_reserved()
    wpc,              \* position of every Worker handed to the thread pool
    flowPc,           \* position of engine.run() and its flow
    raised,           \* engine.run() raised to its caller
    dispatchState,    \* final prefect state of each run's dispatch task
    pollState,        \* final prefect state of each run's polling task
    posts,            \* dispatch POSTs issued per run
    gets,             \* polling tasks executed per run
    emitted,          \* execution_status_update emissions per run
    loaded,           \* run statuses of the forecast as engine.run() loaded it
    aggPc,            \* SpecAgg: which scenario_stage_status has been applied
    dbCatalog,        \* seismic-catalog snapshot objects the forecast owns
    dbWell,           \* well snapshot objects the forecast owns
    snapResult,       \* new_state.result of the two snapshot tasks
    snapWrites,       \* commits made by add_catalog / add_well
    simState,         \* Simulator._state
    simulation_time,  \* Simulator._simulation_time, in milliseconds
    time_range,       \* Simulator._time_range, <<start, end>> in milliseconds
    speed,            \* Simulator._speed
    external_signal,  \* Simulator._external_signal is set
    stepDt,           \* Simulator._dt, in milliseconds
    timerActive,      \* Simulator._timer is running
    connections,      \* connections of the step signal to _simulate_time_step
    queuedSteps,      \* posted calls of _simulate_time_step not yet delivered
    ticks,            \* time steps processed while RUNNING since the last reset
    handlerCalls,     \* calls of the handler since the last reset
    handlerArg,       \* simulation time the handler was last called with
    lastCall,         \* the Simulator method that returned last
    timeAtPause,      \* simulation_time when pause() returned last
    stopIgnored,      \* the last Controller.stop() found the simulator not RUNNING
    jobIter,          \* SerialJob._iter: position of the iterator, 0 for None
    completedUnits,   \* ParallelJob._completed_units
    unitState,        \* every work unit and job: idle, running or done
    startedUnits,     \* units a job has run since its own run()
    reportedUnits,    \* units that reported finished to a job since its run()
    finishedEmitted,  \* own finished notifications of a job since its run()
    trace,            \* what the handling of the last event did, in order
    jobRuns,          \* runs of the forecast job
    enabledModels,    \* number of models enabled in the project settings
    duplicates,       \* repeated finished notifications
    dsEnabled,        \* data source: enabled
    dsArgs,           \* data source: _args
    dsThread,         \* data source: the QThread is idle or started
    dsFetches,        \* fetch() calls made while enabled
    dsReceived,       \* data_received emissions
    dsPayload,        \* what data_received carried last
    dsEscaped,        \* exceptions that left run()
    dsLogged,         \* error-level log records of run()
    dsOutcome,        \* how the web service answered the last run
    oqBusy,           \* _OqController.busy
    oqThread,         \* _oq_thread: stopped, started or running
    oqJobInput,       \* _oq_runner.job_input["job_type"]
    oqCallback,       \* the job whose callback _OqController.callback holds
    oqProc,           \* the oq-engine child process
    oqPending,        \* job_complete emitted and not yet delivered
    oqInProgress,     \* jobs started and not yet ended
    oqCalls,          \* calls of run_hazard / run_risk_poe
    oqRaised,         \* the last call raised
    oqCallbacks,      \* callbacks invoked
    dbObjs,           \* objects the main store has committed
    edited,           \* EditingContext._edited
    editSession,      \* objects in the editing session
    editDeleted,      \* EditingContext._editing_session.deleted
    mainMerged,       \* objects save() merged into the main session
    mainDeleted,      \* objects save() deleted in the main session
    commits,          \* commits of the main store made by save()
    ctxSaved,         \* the editing context has been saved
    contexts,         \* editing contexts created
    ctlStore,         \* Controller.store (the url of the active store)
    ctlProject,       \* Controller.project is set
    connReturn,       \* what the last connect() returned
    connUrl,          \* the db_url of the last connect()
    connCalls,        \* calls of connect()
    storeChanged,     \* store_changed emissions
    dlgKind,          \* the class of the open dialog
    dlgTarget,        \* the scenario or forecast the dialog edits
    dlgWidgets,       \* the values of the dialog's widgets
    dlgData,          \* DialogBase._data
    dlgResult,        \* the QDialog result code
    dlgRaised,        \* accept() let an exception escape
    bndTarget,        \* the value of the bound target
    bndWidget,        \* the value the widget shows
    bndValidate,      \* Binding.validate
    bndHasPost,       \* Binding.post is set
    bndPosts,         \* calls of Binding.post
    bndChanges,       \* change signals of the widget
    bndRefreshes,     \* widget resets made by on_widget_changed
    csvLen,           \* data rows of the csv file
    csvKind,          \* the dates of the file: relative (floats) or absolute
    csvPos,           \* the next line the file handle reads (0 is the header)
    datesAreRelative, \* CsvEventImporter._dates_are_relative
    csvYielded,       \* the rows the last iteration yielded
    csvRaised,        \* the last operation raised
    csvLastOp,        \* the last operation on the importer
    csvOps,           \* operations made on the importer
    recentStored,     \* the recent_files setting holds a list
    recentFiles,      \* the list stored under recent_files
    lastOpened,       \* the path of the last project opening
    opens,            \* project openings
    mcRuns,           \* calls of SeismicityForecast.run
    mcJobId,          \* ModelClient.job_id
    mcTimers,         \* single-shot poll timers that are armed
    mcPolls,          \* polls made, counted up to MaxPolls
    mcResult,         \* ModelClient.model_result
    mcFinished,       \* emissions of ModelClient.finished
    mcReported,       \* finished reports of the SeismicityForecast unit
    mcDispatched,     \* dispatch requests that returned a job id
    mcAborted,        \* polls that raised
    mcRaised,         \* the last call or slot raised
    seismic_events,   \* SeismicCatalog.seismic_events, the date_time of each event
    eventsBefore,     \* seismic_events before the last clear_events
    clearRange,       \* the time_range of the last clear_events
    clearCalls,       \* calls of clear_events, counted up to one
    history_changed,  \* emissions of history_changed, counted up to one
    wsEnabled,        \* settings data_acquisition/fdsnws_enabled and hydws_enabled
    project_time,     \* the importers' project_time, 0 for None
    previous_end_time,\* fdsnws_previous_end_time / hydws_previous_end_time, 0 for None
    finishedPayloads, \* payloads of the finished emissions of the last import run
    lastImporter,     \* the importer of the last import run
    importRuns,       \* import runs made
    sfmMessage,       \* the data handed to the message schema, after its pre_dump hooks
    sfmPayload,       \* the serialized message
    sfmDumped         \* the message has been serialized

vars == <<forecastStatus, scenario, reserved, wpc, flowPc, raised,
          dispatchState, pollState, posts, gets, emitted, loaded, aggPc,
          dbCatalog, dbWell, snapResult, snapWrites,
          simState, simulation_time, time_range, speed, external_signal,
          stepDt, timerActive, connections, queuedSteps, ticks, handlerCalls,
          handlerArg, lastCall, timeAtPause, stopIgnored,
          jobIter, completedUnits, unitState, startedUnits, reportedUnits,
          finishedEmitted, trace, jobRuns, enabledModels, duplicates,
          dsEnabled, dsArgs, dsThread, dsFetches, dsReceived, dsPayload,
          dsEscaped, dsLogged, dsOutcome,
          oqBusy, oqThread, oqJobInput, oqCallback, oqProc, oqPending,
          oqInProgress, oqCalls, oqRaised, oqCallbacks,
          dbObjs, edited, editSession, editDeleted, mainMerged, mainDeleted, commits, ctxSaved, contexts,
          ctlStore, ctlProject, connReturn, connUrl, connCalls, storeChanged,
          dlgKind, dlgTarget, dlgWidgets, dlgData, dlgResult, dlgRaised,
          bndTarget, bndWidget, bndValidate, bndHasPost, bndPosts, bndChanges, bndRefreshes,
          csvLen, csvKind, csvPos, datesAreRelative, csvYielded, csvRaised, csvLastOp, csvOps,
          recentStored, recentFiles, lastOpened, opens,
          mcRuns, mcJobId, mcTimers, mcPolls, mcResult, mcFinished, mcReported, mcDispatched, mcAborted, mcRaised,
          seismic_events, eventsBefore, clearRange, clearCalls, history_changed,
          wsEnabled, project_time, previous_end_time, finishedPayloads, lastImporter, importRuns,
          sfmMessage, sfmPayload, sfmDumped>>

flowVars == <<flowPc, raised, dispatchState, pollState, posts, gets, emitted, loaded>>

snapVars == <<dbCatalog, dbWell, snapResult, snapWrites>>

simVars == <<simState, simulation_time, time_range, speed, external_signal,
             stepDt, timerActive, connections, queuedSteps, ticks,
             handlerCalls, handlerArg, lastCall, timeAtPause, stopIgnored>>

jobVars == <<jobIter, completedUnits, unitState, startedUnits, reportedUnits,
             finishedEmitted, trace, jobRuns, enabledModels, duplicates>>

dsVars == <<dsEnabled, dsArgs, dsThread, dsFetches, dsReceived, dsPayload,
            dsEscaped, dsLogged, dsOutcome>>

oqVars == <<oqBusy, oqThread, oqJobInput, oqCallback, oqProc, oqPending,
            oqInProgress, oqCalls, oqRaised, oqCallbacks>>

storeVars == <<dbObjs, edited, editSession, editDeleted, mainMerged, mainDeleted, commits, ctxSaved, contexts>>

connVars == <<ctlStore, ctlProject, connReturn, connUrl, connCalls, storeChanged>>

dlgVars == <<dlgKind, dlgTarget, dlgWidgets, dlgData, dlgResult, dlgRaised>>

bndVars == <<bndTarget, bndWidget, bndValidate, bndHasPost, bndPosts, bndChanges, bndRefreshes>>

csvVars == <<csvLen, csvKind, csvPos, datesAreRelative, csvYielded, csvRaised, csvLastOp, csvOps>>

recentVars == <<recentStored, recentFiles, lastOpened, opens>>

mcVars == <<mcRuns, mcJobId, mcTimers, mcPolls, mcResult, mcFinished, mcReported, mcDispatched, mcAborted, mcRaised>>

catVars == <<seismic_events, eventsBefore, clearRange, clearCalls, history_changed>>

impVars == <<wsEnabled, project_time, previous_end_time, finishedPayloads, lastImporter, importRuns>>

sfmVars == <<sfmMessage, sfmPayload, sfmDumped>>

\* the state of the components a forecast run does not touch
extVars == <<simVars, jobVars, dsVars, oqVars, storeVars, connVars, dlgVars, bndVars, csvVars, recentVars, mcVars, catVars, impVars, sfmVars>>

\* the state of the forecast engine, its workers and its snapshots
coreVars == <<forecastStatus, scenario, reserved, wpc, flowVars, aggPc, snapVars>>

\* what the simulator, the jobs, the data sources and the OQ controller
\* each leave alone
simRest == <<coreVars, jobVars, dsVars, oqVars, storeVars, connVars, dlgVars, bndVars, csvVars, recentVars, mcVars, catVars, impVars, sfmVars>>

jobRest == <<coreVars, simVars, dsVars, oqVars, storeVars, connVars, dlgVars, bndVars, csvVars, recentVars, mcVars, catVars, impVars, sfmVars>>

dsRest == <<coreVars, simVars, jobVars, oqVars, storeVars, connVars, dlgVars, bndVars, csvVars, recentVars, mcVars, catVars, impVars, sfmVars>>

oqRest == <<coreVars, simVars, jobVars, dsVars, storeVars, connVars, dlgVars, bndVars, csvVars, recentVars, mcVars, catVars, impVars, sfmVars>>

storeRest == <<coreVars, simVars, jobVars, dsVars, oqVars, connVars, dlgVars, bndVars, csvVars, recentVars, mcVars, catVars, impVars, sfmVars>>

connRest == <<coreVars, simVars, jobVars, dsVars, oqVars, storeVars, dlgVars, bndVars, csvVars, recentVars, mcVars, catVars, impVars, sfmVars>>

dlgRest == <<coreVars, simVars, jobVars, dsVars, oqVars, storeVars, connVars, bndVars, csvVars, recentVars, mcVars, catVars, impVars, sfmVars>>

bndRest == <<coreVars, simVars, jobVars, dsVars, oqVars, storeVars, connVars, dlgVars, csvVars, recentVars, mcVars, catVars, impVars, sfmVars>>

csvRest == <<coreVars, simVars, jobVars, dsVars, oqVars, storeVars, connVars, dlgVars, bndVars, recentVars, mcVars, catVars, impVars, sfmVars>>

recentRest == <<coreVars, simVars, jobVars, dsVars, oqVars, storeVars, connVars, dlgVars, bndVars, csvVars, mcVars, catVars, impVars, sfmVars>>

mcRest == <<coreVars, simVars, jobVars, dsVars, oqVars, storeVars, connVars, dlgVars, bndVars, csvVars, recentVars, catVars, impVars, sfmVars>>

catRest == <<coreVars, simVars, jobVars, dsVars, oqVars, storeVars, connVars, dlgVars, bndVars, csvVars, recentVars, mcVars, impVars, sfmVars>>

impRest == <<coreVars, simVars, jobVars, dsVars, oqVars, storeVars, connVars, dlgVars, bndVars, csvVars, recentVars, mcVars, catVars, sfmVars>>

sfmRest == <<coreVars, simVars, jobVars, dsVars, oqVars, storeVars, connVars, dlgVars, bndVars, csvVars, recentVars, mcVars, catVars, impVars>>

\* ------------------------------------------------------------------ Worker
W_RUNNING == <<"flow_running", 0>>

W_FINISHED == <<"flow_finished", 0>>

W_DISPATCHED(r) == <<"dispatched_model_run", r>>

W_RESULT(r) == <<"finished_model_run", r>>

W_CATALOG == <<"add_catalog", 0>>

W_WELL == <<"add_well", 0>>

FlowWorkers == {W_RUNNING, W_FINISHED} \cup {W_DISPATCHED(r) : r \in RunIds}
                  \cup {W_RESULT(r) : r \in RunIds}

SnapWorkers == {W_CATALOG, W_WELL}

WorkerIds == FlowWorkers \cup SnapWorkers

\* the Workers that are constructed with synchronous_thread=...
TokenWorkers == {W_RUNNING, W_FINISHED, W_CATALOG, W_WELL}
                   \cup {W_RESULT(r) : r \in RunIds}

\* final states of a task for which task_finished() holds: a Success with a
\* result, a Failed with a result, a Failed whose result is NoResultType
FinishedStates == {"Success", "Failed", "FailedNoResult"}

successful_result(st) == st = "Success"

error_result(st) == st = "Failed"

\* threadpool.start(worker)
Start(w) == [wpc EXCEPT ![w] = "queued"]

\* Worker.run, the loop test: is_reserved() is seen False and the loop is left
WorkerPass(w) ==
    /\ w \in TokenWorkers
    /\ wpc[w] = "queued"
    /\ ~reserved
    /\ wpc' = [wpc EXCEPT ![w] = "passed"]
    /\ UNCHANGED <<extVars, forecastStatus, scenario, reserved, flowVars, aggPc, snapVars>>

\* Worker.run, the loop body: the token stayed reserved past the deadline
WorkerTimeout(w) ==
    /\ w \in TokenWorkers
    /\ wpc[w] = "queued"
    /\ reserved
    /\ wpc' = [wpc EXCEPT ![w] = "timeout"]
    /\ UNCHANGED <<extVars, forecastStatus, scenario, reserved, flowVars, aggPc, snapVars>>

\* Worker.run: synchronous_thread.reserve_thread()
WorkerReserve(w) ==
    /\ w \in TokenWorkers
    /\ wpc[w] = "passed"
    /\ reserved' = TRUE
    /\ wpc' = [wpc EXCEPT ![w] = "run"]
    /\ UNCHANGED <<extVars, forecastStatus, scenario, flowVars, aggPc, snapVars>>

\* a Worker is inside self.fn(...)
InCallback(w) == wpc[w] = "run"

Terminal(w) == wpc[w] \in {"none", "done", "timeout", "raised"}


\* ------------------------------------------------- the seismicity flow
SeisRuns == scenario.stages[SEISMICITY].runs

SetRun(scn, r, field, val) ==
    [scn EXCEPT !.stages[SEISMICITY].runs[r] = [@ EXCEPT ![field] = val]]

\* mutant of EngineRun: the precondition is not checked
EngineRunUnchecked ==
    /\ flowPc = "idle"
    /\ raised' = raised
    /\ flowPc' = "flow_running"
    /\ loaded' = [r \in RunIds |-> SeisRuns[r].status]
    /\ UNCHANGED <<extVars, forecastStatus, scenario, reserved, wpc, dispatchState,
                   pollState, posts, gets, emitted, aggPc, snapVars>>

\* Engine.run(t, forecast_id): the precondition, then the flow is executed
EngineRun ==
    /\ flowPc = "idle"
    /\ IF forecastStatus = "COMPLETE"
       THEN /\ raised' = TRUE
            /\ flowPc' = "raised"
            /\ loaded' = loaded
       ELSE /\ raised' = raised
            /\ flowPc' = "flow_running"
            /\ loaded' = [r \in RunIds |-> SeisRuns[r].status]
    /\ UNCHANGED <<extVars, forecastStatus, scenario, reserved, wpc, dispatchState,
                   pollState, posts, gets, emitted, aggPc, snapVars>>

\* ForecastHandler.flow_state_handler, new_state.is_running()
FlowStateHandlerRunning ==
    /\ flowPc = "flow_running"
    /\ wpc' = Start(W_RUNNING)
    /\ flowPc' = "models"
    /\ UNCHANGED <<extVars, forecastStatus, scenario, reserved, raised, dispatchState,
                   pollState, posts, gets, emitted, loaded, aggPc, snapVars>>

\* mutant of RunsToDispatch: every run is dispatched again
RunsToDispatchAll == RunIds

\* the runs the flow hands to the dispatch tasks
RunsToDispatch == {r \in RunIds : loaded[r] # "DISPATCHED"}

\* the task that creates/updates the model runs of an enabled scenario, and
\* ForecastHandler.scenario_models_state_handler on its Success
ScenarioModelsStateHandler ==
    /\ flowPc = "models"
    /\ flowPc' = "runs"
    /\ IF scenario.enabled
       THEN /\ dispatchState' = [r \in RunIds |->
                   IF r \in RunsToDispatch THEN "Pending" ELSE "AlreadyDispatched"]
            /\ scenario' = [scenario EXCEPT !.stages[SEISMICITY].runs =
                   [r \in RunIds |->
                      IF r \in RunsToDispatch
                      THEN [SeisRuns[r] EXCEPT !.status = "RUNNING"]
                      ELSE SeisRuns[r]]]
       ELSE /\ dispatchState' = [r \in RunIds |-> "NotRun"]
            /\ scenario' = scenario
    /\ UNCHANGED <<extVars, forecastStatus, reserved, wpc, raised, pollState, posts,
                   gets, emitted, loaded, aggPc, snapVars>>

\* the dispatch task of run r (one POST) and
\* ForecastHandler.model_run_state_handler on its final state
ModelRunStateHandler(r) ==
    /\ flowPc = "runs"
    /\ dispatchState[r] = "Pending"
    /\ \E st \in FinishedStates : dispatchState' = [dispatchState EXCEPT ![r] = st]
    /\ posts' = [posts EXCEPT ![r] = @ + 1]
    /\ wpc' = Start(W_DISPATCHED(r))
    /\ UNCHANGED <<extVars, forecastStatus, scenario, reserved, flowPc, raised,
                   pollState, gets, emitted, loaded, aggPc, snapVars>>

\* ForecastHandler.dispatched_model_run, run by a Worker without the token
DispatchedModelRun(r) ==
    /\ wpc[W_DISPATCHED(r)] = "queued"
    /\ LET st == dispatchState[r] IN
       IF successful_result(st)
       THEN /\ scenario' = SetRun(SetRun(scenario, r, "runid", TRUE),
                                  r, "status", "DISPATCHED")
            /\ emitted' = [emitted EXCEPT ![r] = @ + 1]
            /\ wpc' = [wpc EXCEPT ![W_DISPATCHED(r)] = "done"]
       ELSE IF error_result(st)
       THEN /\ scenario' = SetRun(scenario, r, "status", "ERROR")
            /\ emitted' = [emitted EXCEPT ![r] = @ + 1]
            /\ wpc' = [wpc EXCEPT ![W_DISPATCHED(r)] = "done"]
       ELSE \* model_run is unbound at the emit: UnboundLocalError
            /\ scenario' = scenario
            /\ emitted' = emitted
            /\ wpc' = [wpc EXCEPT ![W_DISPATCHED(r)] = "raised"]
    /\ UNCHANGED <<extVars, forecastStatus, reserved, flowPc, raised, dispatchState,
                   pollState, posts, gets, loaded, aggPc, snapVars>>

\* mutant of PollErrorUpdate: the query is not filtered by the run's id
PollErrorUpdateAll(scn, r) ==
    [scn EXCEPT !.stages[SEISMICITY].runs =
        [q \in RunIds |-> [scn.stages[SEISMICITY].runs[q] EXCEPT !.status = "ERROR"]]]

\* poll_seismicity_state_handler, error branch: the run with the id of the
\* task's model_run is queried and set to ERROR
PollErrorUpdate(scn, r) == SetRun(scn, r, "status", "ERROR")

\* the polling task of run r and
\* ForecastHandler.poll_seismicity_state_handler on its final state
PollSeismicityStateHandler(r) ==
    /\ flowPc = "runs"
    /\ dispatchState[r] \in {"Success", "AlreadyDispatched"}
    /\ pollState[r] = "Pending"
    /\ gets' = [gets EXCEPT ![r] = @ + 1]
    /\ \E st \in FinishedStates :
          /\ pollState' = [pollState EXCEPT ![r] = st]
          /\ IF successful_result(st)
             THEN /\ scenario' = SetRun(scenario, r, "status", "COMPLETE")
                  /\ wpc' = Start(W_RESULT(r))
                  /\ emitted' = [emitted EXCEPT ![r] = @ + 1]
             ELSE IF error_result(st)
             THEN /\ scenario' = PollErrorUpdate(scenario, r)
                  /\ wpc' = wpc
                  /\ emitted' = [emitted EXCEPT ![r] = @ + 1]
             ELSE \* model_run is unbound at the emit: UnboundLocalError
                  /\ UNCHANGED <<scenario, wpc, emitted>>
    /\ UNCHANGED <<extVars, forecastStatus, reserved, flowPc, raised, dispatchState,
                   posts, loaded, aggPc, snapVars>>

\* ForecastHandler.finished_model_run, then Worker.run releases the token
FinishedModelRun(r) ==
    /\ wpc[W_RESULT(r)] = "run"
    /\ scenario' = SetRun(scenario, r, "result", TRUE)
    /\ reserved' = FALSE
    /\ wpc' = [wpc EXCEPT ![W_RESULT(r)] = "done"]
    /\ UNCHANGED <<extVars, forecastStatus, flowVars, aggPc, snapVars>>

\* a run's tasks have all reached a final state
RunOver(r) ==
    \/ dispatchState[r] \in {"NotRun", "Failed", "FailedNoResult"}
    \/ pollState[r] # "Pending"

\* ForecastHandler.flow_state_handler, new_state.is_finished()
FlowStateHandlerFinished ==
    /\ flowPc = "runs"
    /\ \A r \in RunIds : RunOver(r)
    /\ wpc' = Start(W_FINISHED)
    /\ flowPc' = "done"
    /\ UNCHANGED <<extVars, forecastStatus, scenario, reserved, raised, dispatchState,
                   pollState, posts, gets, emitted, loaded, aggPc, snapVars>>

\* ForecastHandler.update_seismicity_statuses with a Running flow state,
\* then Worker.run releases the token
UpdateSeismicityStatusesRunning ==
    /\ wpc[W_RUNNING] = "run"
    /\ forecastStatus' = "RUNNING"
    /\ scenario' = IF scenario.enabled
                   THEN [scenario EXCEPT !.status = "RUNNING"]
                   ELSE scenario
    /\ reserved' = FALSE
    /\ wpc' = [wpc EXCEPT ![W_RUNNING] = "done"]
    /\ UNCHANGED <<extVars, flowVars, aggPc, snapVars>>

\* ForecastHandler.update_seismicity_statuses with a finished flow state,
\* then Worker.run releases the token
UpdateSeismicityStatusesFinished ==
    /\ wpc[W_FINISHED] = "run"
    /\ scenario' = ForecastScenarioStageStatus(scenario)
    /\ forecastStatus' = forecastStatus
    /\ reserved' = FALSE
    /\ wpc' = [wpc EXCEPT ![W_FINISHED] = "done"]
    /\ UNCHANGED <<extVars, flowVars, aggPc, snapVars>>


\* ------------------------------------------------------- initial states
Run(enabled, status) ==
    [enabled |-> enabled, status |-> status,
     runid |-> (status = "DISPATCHED"), result |-> FALSE]

Stage(enabled, status, runs) ==
    [enabled |-> enabled, status |-> status, runs |-> runs]

Scenario(enabled, status, seismicity, hazard) ==
    [enabled |-> enabled, status |-> status,
     stages |-> (SEISMICITY :> seismicity @@ HAZARD :> hazard)]

\* the forecast as the flow finds it: runs PENDING or left DISPATCHED by an
\* earlier engine.run()
FlowScenarios ==
    {Scenario(e, "PENDING",
              Stage(TRUE, "PENDING", [r \in RunIds |-> Run(TRUE, st[r])]),
              Stage(he, "PENDING", [h \in HazardRunIds |-> Run(TRUE, "PENDING")])) :
        e \in BOOLEAN, he \in BOOLEAN,
        st \in [RunIds -> {"PENDING", "DISPATCHED"}]}

IdleScenario ==
    Scenario(TRUE, "PENDING",
             Stage(TRUE, "PENDING", [r \in RunIds |-> Run(TRUE, "PENDING")]),
             Stage(FALSE, "PENDING", [h \in HazardRunIds |-> Run(TRUE, "PENDING")]))

WorkersIdle ==
    /\ reserved = FALSE
    /\ wpc = [w \in WorkerIds |-> "none"]

FlowIdle ==
    /\ flowPc = "idle"
    /\ raised = FALSE
    /\ dispatchState = [r \in RunIds |-> "NotRun"]
    /\ pollState = [r \in RunIds |-> "Pending"]
    /\ posts = [r \in RunIds |-> 0]
    /\ gets = [r \in RunIds |-> 0]
    /\ emitted = [r \in RunIds |-> 0]
    /\ loaded = [r \in RunIds |-> "PENDING"]

SnapIdle ==
    /\ dbCatalog = {}
    /\ dbWell = {}
    /\ snapResult = <<>>
    /\ snapWrites = 0

\* Simulator.__init__
SimIdle ==
    /\ simState = "STOPPED"
    /\ simulation_time = 0
    /\ time_range = <<>>
    /\ speed = 1000
    /\ external_signal = FALSE
    /\ stepDt = 0
    /\ timerActive = FALSE
    /\ connections = 0
    /\ queuedSteps = 0
    /\ ticks = 0
    /\ handlerCalls = 0
    /\ handlerArg = 0
    /\ lastCall = "none"
    /\ timeAtPause = 0
    /\ stopIgnored = FALSE

\* Job.__init__, SerialJob.__init__, ParallelJob.__init__
JobFieldsIdle ==
    /\ jobIter = [j \in {<<"forecast_job", 0>>, <<"scenario_job", 0>>} |-> 0]
    /\ completedUnits = [j \in {<<"forecast_stage", 0>>} |-> <<>>]
    /\ unitState = [u \in {<<"forecast_job", 0>>, <<"scenario_job", 0>>,
                            <<"forecast_stage", 0>>, <<"psha_stage", 0>>,
                            <<"risk_stage", 0>>}
                           \cup {<<"model", i>> : i \in 1..MaxModels} |-> "idle"]
    /\ startedUnits = [j \in {<<"forecast_job", 0>>, <<"scenario_job", 0>>,
                               <<"forecast_stage", 0>>} |-> <<>>]
    /\ reportedUnits = [j \in {<<"forecast_job", 0>>, <<"scenario_job", 0>>,
                                <<"forecast_stage", 0>>} |-> {}]
    /\ finishedEmitted = [j \in {<<"forecast_job", 0>>, <<"scenario_job", 0>>,
                                  <<"forecast_stage", 0>>} |-> 0]
    /\ trace = <<>>
    /\ jobRuns = 0
    /\ duplicates = 0

\* the job tree of a project with every model enabled
JobIdle ==
    /\ JobFieldsIdle
    /\ enabledModels = MaxModels

\* FDSNWSDataSource.__init__, HYDWSDataSource.__init__
DsIdle ==
    /\ dsEnabled = [d \in {"fdsnws", "hydws"} |-> FALSE]
    /\ dsArgs = [d \in {"fdsnws", "hydws"} |-> "none"]
    /\ dsThread = [d \in {"fdsnws", "hydws"} |-> "idle"]
    /\ dsFetches = [d \in {"fdsnws", "hydws"} |-> 0]
    /\ dsReceived = [d \in {"fdsnws", "hydws"} |-> 0]
    /\ dsPayload = [d \in {"fdsnws", "hydws"} |-> "none"]
    /\ dsEscaped = [d \in {"fdsnws", "hydws"} |-> 0]
    /\ dsLogged = [d \in {"fdsnws", "hydws"} |-> 0]
    /\ dsOutcome = [d \in {"fdsnws", "hydws"} |-> "none"]

\* _OqController.__init__, _OqRunner.__init__
OqIdle ==
    /\ oqBusy = FALSE
    /\ oqThread = "stopped"
    /\ oqJobInput = "none"
    /\ oqCallback = "none"
    /\ oqProc = "none"
    /\ oqPending = FALSE
    /\ oqInProgress = 0
    /\ oqCalls = 0
    /\ oqRaised = FALSE
    /\ oqCallbacks = 0

\* Store.__init__, EditingContext.__init__
StoreIdle ==
    /\ dbObjs = {}
    /\ edited = {}
    /\ editSession = {}
    /\ editDeleted = {}
    /\ mainMerged = {}
    /\ mainDeleted = {}
    /\ commits = 0
    /\ ctxSaved = FALSE
    /\ contexts = 0

\* Controller.__init__: no store, no project
ConnIdle ==
    /\ ctlStore = "None"
    /\ ctlProject = FALSE
    /\ connReturn = "none"
    /\ connUrl = "none"
    /\ connCalls = 0
    /\ storeChanged = 0

\* no configuration dialog is open
DlgIdle ==
    /\ dlgKind = "none"
    /\ dlgTarget = [name |-> "a", geom |-> "poly1", well |-> "None", config |-> "empty",
                    seis |-> FALSE, haz |-> FALSE, risk |-> FALSE,
                    starttime |-> 0, endtime |-> 0]
    /\ dlgWidgets = [name |-> "a", geom |-> "poly1", seis |-> FALSE, haz |-> FALSE,
                     risk |-> FALSE, importRadio |-> FALSE, importRet |-> "None",
                     starttime |-> 0, endtime |-> 0]
    /\ dlgData = "None"
    /\ dlgResult = "none"
    /\ dlgRaised = FALSE

\* Binding.__init__: the default validator, no post-hook
BndIdle ==
    /\ bndTarget = 0
    /\ bndWidget = 0
    /\ bndValidate = "any"
    /\ bndHasPost = FALSE
    /\ bndPosts = 0
    /\ bndChanges = 0
    /\ bndRefreshes = 0

\* no csv file is being imported
CsvIdle ==
    /\ csvLen = 0
    /\ csvKind = "relative"
    /\ csvPos = 0
    /\ datesAreRelative = "None"
    /\ csvYielded = <<>>
    /\ csvRaised = FALSE
    /\ csvLastOp = "none"
    /\ csvOps = 0

\* the recent_files setting holds its default, None
RecentIdle ==
    /\ recentStored = FALSE
    /\ recentFiles = <<>>
    /\ lastOpened = 0
    /\ opens = 0

\* ModelClient.__init__ and SeismicityForecast.__init__: nothing dispatched
ClientIdle ==
    /\ mcRuns = 0
    /\ mcJobId = "None"
    /\ mcTimers = 0
    /\ mcPolls = 0
    /\ mcResult = "None"
    /\ mcFinished = 0
    /\ mcReported = 0
    /\ mcDispatched = 0
    /\ mcAborted = 0
    /\ mcRaised = FALSE

\* SeismicCatalog.__init__: an empty catalog
CatalogIdle ==
    /\ seismic_events = <<>>
    /\ eventsBefore = <<>>
    /\ clearRange = <<-1, -1>>
    /\ clearCalls = 0
    /\ history_changed = 0

\* FDSNWSImporter.__init__ / HYDWSImporter.__init__, the web services disabled
ImporterIdle ==
    /\ wsEnabled = [k \in {"fdsnws", "hydws"} |-> FALSE]
    /\ project_time = [k \in {"fdsnws", "hydws"} |-> 0]
    /\ previous_end_time = [k \in {"fdsnws", "hydws"} |-> 0]
    /\ finishedPayloads = <<>>
    /\ lastImporter = "none"
    /\ importRuns = 0

\* no message is being serialized
SfmIdle ==
    /\ sfmMessage = <<>>
    /\ sfmPayload = <<>>
    /\ sfmDumped = FALSE

ExtIdle ==
    /\ SimIdle
    /\ JobIdle
    /\ DsIdle
    /\ OqIdle
    /\ StoreIdle
    /\ ConnIdle
    /\ DlgIdle
    /\ BndIdle
    /\ CsvIdle
    /\ RecentIdle
    /\ ClientIdle
    /\ CatalogIdle
    /\ ImporterIdle
    /\ SfmIdle

Init ==
    /\ forecastStatus \in {"PENDING", "COMPLETE"}
    /\ scenario \in FlowScenarios
    /\ WorkersIdle
    /\ FlowIdle
    /\ aggPc = "off"
    /\ SnapIdle
    /\ ExtIdle

Next ==
    \/ EngineRun
    \/ FlowStateHandlerRunning
    \/ ScenarioModelsStateHandler
    \/ \E r \in RunIds : ModelRunStateHandler(r)
    \/ \E r \in RunIds : DispatchedModelRun(r)
    \/ \E r \in RunIds : PollSeismicityStateHandler(r)
    \/ \E r \in RunIds : FinishedModelRun(r)
    \/ FlowStateHandlerFinished
    \/ UpdateSeismicityStatusesRunning
    \/ UpdateSeismicityStatusesFinished
    \/ \E w \in FlowWorkers : WorkerPass(w)
    \/ \E w \in FlowWorkers : WorkerTimeout(w)
    \/ \E w \in FlowWorkers : WorkerReserve(w)

Spec == Init /\ [][Next]_vars


\* ----------------------------------------------- properties of the flow
\* every Worker of the flow has ended and the flow is over
Quiescent ==
    /\ flowPc = "done"
    /\ \A w \in WorkerIds : Terminal(w)

\* C1: two Workers that were given the synchronous_thread token are never
\* inside their callbacks at the same time.
C1_CallbacksSerialized ==
    \A w1 \in TokenWorkers : \A w2 \in TokenWorkers :
        (InCallback(w1) /\ InCallback(w2)) => w1 = w2

\* C5: once the flow-finish Worker has run, the Forecast's own status is
\* terminal: COMPLETE if every enabled scenario is COMPLETE, ERROR if an
\* enabled scenario is ERROR.
C5_ForecastTerminalOnFinish ==
    wpc[W_FINISHED] = "done" =>
        /\ forecastStatus \in {"COMPLETE", "ERROR"}
        /\ (scenario.enabled /\ scenario.status = "ERROR") => forecastStatus = "ERROR"
        /\ (scenario.enabled => scenario.status = "COMPLETE") => forecastStatus = "COMPLETE"

\* a step of a handler of run r that handles a failed dispatch or poll
FailingRunStep(r) ==
    \/ pollState[r] = "Pending" /\ pollState'[r] \in {"Failed", "FailedNoResult"}
    \/ dispatchState[r] = "Pending" /\ dispatchState'[r] \in {"Failed", "FailedNoResult"}
    \/ /\ wpc[W_DISPATCHED(r)] = "queued"
       /\ wpc'[W_DISPATCHED(r)] # "queued"
       /\ dispatchState[r] \in {"Failed", "FailedNoResult"}

\* nothing of run q is touched by the step
SiblingUntouched(q) ==
    /\ SeisRuns'[q] = SeisRuns[q]
    /\ wpc'[W_RESULT(q)] = wpc[W_RESULT(q)]
    /\ wpc'[W_DISPATCHED(q)] = wpc[W_DISPATCHED(q)]
    /\ dispatchState'[q] = dispatchState[q]
    /\ pollState'[q] = pollState[q]

\* C6: the handlers of a failing run change only that run: the status, the
\* result and the pending Workers of every sibling run are left as they were,
\* and a sibling whose result Worker has run has its result written.
C6_FailureLeavesSiblings ==
    /\ [][\A r \in RunIds : FailingRunStep(r) =>
             \A q \in RunIds \ {r} : SiblingUntouched(q)]_vars
    /\ [](\A q \in RunIds : wpc[W_RESULT(q)] = "done" => SeisRuns[q].result)

\* one run failed at polling, a sibling completed and its result is written
C6_Witness ==
    \E r \in RunIds : \E q \in RunIds \ {r} :
        /\ pollState[r] = "Failed"
        /\ SeisRuns[r].status = "ERROR"
        /\ pollState[q] = "Success"
        /\ SeisRuns[q].status = "COMPLETE"
        /\ SeisRuns[q].result

\* the dispatch and polling tasks of run r that reached a final state
FinishedTasks(r) ==
    (IF dispatchState[r] \in FinishedStates THEN 1 ELSE 0)
    + (IF pollState[r] \in FinishedStates THEN 1 ELSE 0)

\* C7: when the flow and its Workers are over, every run has received exactly
\* one execution-status notification per finished dispatch or polling task.
C7_OneNotificationPerTask ==
    Quiescent => \A r \in RunIds : emitted[r] = FinishedTasks(r)

\* C8: a POST is issued for a run exactly when the run was not DISPATCHED at
\* engine.run(); a run that was DISPATCHED is only polled.
C8_PostIffNotDispatched ==
    \A r \in RunIds :
        /\ posts[r] <= 1
        /\ posts[r] = 1 => loaded[r] # "DISPATCHED"
        /\ (flowPc = "done" /\ scenario.enabled) =>
              /\ loaded[r] # "DISPATCHED" => posts[r] = 1
              /\ loaded[r] = "DISPATCHED" => (posts[r] = 0 /\ gets[r] = 1)

\* the flow is over with one run that was DISPATCHED (polled, no POST) and
\* one that was PENDING (one POST)
C8_Witness ==
    /\ flowPc = "done"
    /\ \E r \in RunIds : \E q \in RunIds :
          /\ loaded[r] = "DISPATCHED" /\ posts[r] = 0 /\ gets[r] = 1
          /\ loaded[q] = "PENDING" /\ posts[q] = 1

\* C9: engine.run() on a COMPLETE forecast raises and does nothing else: no
\* POST, no poll, no Worker, no status change.
C9_CompleteForecastRaises ==
    /\ [][(flowPc = "idle" /\ forecastStatus = "COMPLETE" /\ flowPc' # "idle") =>
             /\ raised'
             /\ flowPc' = "raised"
             /\ UNCHANGED <<forecastStatus, scenario, wpc, posts, gets,
                            emitted, dispatchState, pollState>>]_vars
    /\ [](raised => /\ forecastStatus = "COMPLETE"
                    /\ \A r \in RunIds : posts[r] = 0 /\ gets[r] = 0
                    /\ \A w \in WorkerIds : wpc[w] = "none")

\* engine.run() has raised on a COMPLETE forecast
C9_Witness == raised /\ flowPc = "raised" /\ forecastStatus = "COMPLETE"


\* ------------------------------------- SpecAgg: the aggregation functions
\* states a run is given as input of the aggregation
AggRunStatus == {"COMPLETE", "ERROR", "RUNNING"}

\* states a stage or a scenario is given as input of the aggregation
AggStatus == {"PENDING", "RUNNING", "COMPLETE", "ERROR"}

AggRuns(ids) ==
    {[r \in ids |-> Run(en[r], st[r])] :
        en \in [ids -> BOOLEAN], st \in [ids -> AggRunStatus]}

InitAgg ==
    /\ forecastStatus = "RUNNING"
    /\ \E s \in AggStatus, se \in BOOLEAN, ss \in AggStatus, sr \in AggRuns(RunIds),
          he \in BOOLEAN, hs \in AggStatus, hr \in AggRuns(HazardRunIds) :
          scenario = Scenario(TRUE, s, Stage(se, ss, sr), Stage(he, hs, hr))
    /\ WorkersIdle
    /\ FlowIdle
    /\ aggPc = "input"
    /\ SnapIdle
    /\ ExtIdle

\* scenario = ForecastHandler.scenario_stage_status(scenario), as called for
\* every scenario when the seismicity flow has finished
ForecastScenarioStageStatusCall ==
    /\ aggPc = "input"
    /\ scenario' = ForecastScenarioStageStatus(scenario)
    /\ aggPc' = "seismicity"
    /\ UNCHANGED <<extVars, forecastStatus, reserved, wpc, flowVars, snapVars>>

\* scenario = HazardHandler.scenario_stage_status(scenario), as called for
\* every scenario when the hazard flow has finished
HazardScenarioStageStatusCall ==
    /\ aggPc \in {"input", "seismicity"}
    /\ scenario' = HazardScenarioStageStatus(scenario)
    /\ aggPc' = "hazard"
    /\ UNCHANGED <<extVars, forecastStatus, reserved, wpc, flowVars, snapVars>>

NextAgg ==
    \/ ForecastScenarioStageStatusCall
    \/ HazardScenarioStageStatusCall

SpecAgg == InitAgg /\ [][NextAgg]_vars

AllStagesComplete(scn) ==
    \A k \in EnabledStages(scn) : scn.stages[k].status = "COMPLETE"

AllEnabledStagesComplete == AllStagesComplete(scenario)

SomeStage(scn, st) == \E k \in EnabledStages(scn) : scn.stages[k].status = st

AllEnabledRunsComplete(key) ==
    \A r \in DOMAIN scenario.stages[key].runs :
        scenario.stages[key].runs[r].enabled =>
            scenario.stages[key].runs[r].status = "COMPLETE"

\* C2: after a handler's scenario_stage_status the handled stage (seismicity
\* for ForecastHandler, hazard for HazardHandler) is COMPLETE if and only if
\* every enabled run under it is COMPLETE, and is ERROR otherwise.
C2_StageCompleteIffRunsComplete ==
    /\ aggPc = "seismicity" =>
          /\ scenario.stages[SEISMICITY].status \in {"COMPLETE", "ERROR"}
          /\ scenario.stages[SEISMICITY].status = "COMPLETE"
                <=> AllEnabledRunsComplete(SEISMICITY)
    /\ aggPc = "hazard" =>
          /\ scenario.stages[HAZARD].status \in {"COMPLETE", "ERROR"}
          /\ scenario.stages[HAZARD].status = "COMPLETE"
                <=> AllEnabledRunsComplete(HAZARD)

\* a stage was handled that has a disabled run which is not COMPLETE and
\* whose enabled runs are all COMPLETE
C2_Witness ==
    /\ aggPc = "seismicity"
    /\ scenario.stages[SEISMICITY].status = "COMPLETE"
    /\ \E r \in RunIds : /\ ~SeisRuns[r].enabled
                         /\ SeisRuns[r].status = "ERROR"
    /\ \E r \in RunIds : SeisRuns[r].enabled

\* C3 as stated: after ForecastHandler.scenario_stage_status the scenario is
\* COMPLETE if and only if every enabled stage is COMPLETE, otherwise ERROR if
\* an enabled stage is ERROR, otherwise RUNNING if an enabled stage is PENDING.
C3_ForecastScenarioIff ==
    aggPc = "seismicity" =>
        /\ scenario.status = "COMPLETE" <=> AllEnabledStagesComplete
        /\ (~AllEnabledStagesComplete /\ SomeStage(scenario, "ERROR"))
           => scenario.status = "ERROR"
        /\ (~AllEnabledStagesComplete /\ ~SomeStage(scenario, "ERROR")
              /\ SomeStage(scenario, "PENDING"))
           => scenario.status = "RUNNING"

\* the enabled stages after the call are neither all COMPLETE, nor is one of
\* them ERROR or PENDING
NoBranchApplies(scn) ==
    /\ ~AllStagesComplete(scn)
    /\ ~SomeStage(scn, "ERROR")
    /\ ~SomeStage(scn, "PENDING")

\* C3 amended: after ForecastHandler.scenario_stage_status the scenario is
\* COMPLETE if every enabled stage is COMPLETE, otherwise ERROR if an enabled
\* stage is ERROR, otherwise RUNNING if an enabled stage is PENDING, and in
\* every other case it keeps the status it had before the call.
C3_ForecastScenarioChain ==
    [][(aggPc = "input" /\ aggPc' = "seismicity") =>
          /\ AllStagesComplete(scenario') => scenario'.status = "COMPLETE"
          /\ (~AllStagesComplete(scenario') /\ SomeStage(scenario', "ERROR"))
             => scenario'.status = "ERROR"
          /\ (~AllStagesComplete(scenario') /\ ~SomeStage(scenario', "ERROR")
                /\ SomeStage(scenario', "PENDING"))
             => scenario'.status = "RUNNING"
          /\ NoBranchApplies(scenario') => scenario'.status = scenario.status]_vars

\* the call left a COMPLETE scenario COMPLETE although an enabled stage is
\* RUNNING
C3_Witness ==
    /\ aggPc = "seismicity"
    /\ NoBranchApplies(scenario)
    /\ scenario.status = "COMPLETE"
    /\ scenario.stages[HAZARD].enabled
    /\ scenario.stages[HAZARD].status = "RUNNING"

\* C4: after HazardHandler.scenario_stage_status the scenario is COMPLETE if
\* and only if every enabled stage is COMPLETE, and ERROR in every other case.
C4_HazardScenarioCompleteOrError ==
    aggPc = "hazard" =>
        /\ scenario.status \in {"COMPLETE", "ERROR"}
        /\ scenario.status = "COMPLETE" <=> AllEnabledStagesComplete

\* the hazard handler made a scenario ERROR whose enabled stages hold no
\* ERROR, only a PENDING or RUNNING one
C4_Witness ==
    /\ aggPc = "hazard"
    /\ scenario.status = "ERROR"
    /\ scenario.stages[SEISMICITY].enabled
    /\ scenario.stages[SEISMICITY].status \in {"PENDING", "RUNNING"}
    /\ scenario.stages[HAZARD].status = "COMPLETE"


\* C29: a scenario that is COMPLETE has the result of every enabled
\* seismicity model run that is COMPLETE written
C29_CompleteScenarioHasResults ==
    scenario.status = "COMPLETE" =>
        \A r \in RunIds :
            (SeisRuns[r].enabled /\ SeisRuns[r].status = "COMPLETE")
                => SeisRuns[r].result

\* ---------------------------------- SpecSnap: the snapshot handlers
\* number of distinct snapshot objects of a kind
MaxSnapshots == 2

CatalogObjs == {<<"catalog", i>> : i \in 1..MaxSnapshots}

WellObjs == {<<"well", i>> : i \in 1..MaxSnapshots}

\* the lists a relationship of the task's forecast may hold
SnapLists(objs) ==
    {<<>>} \cup {<<a>> : a \in objs}
           \cup {<<p[1], p[2]>> : p \in {q \in objs \X objs : q[1] # q[2]}}

\* the final state of a snapshot task with the forecast it carries as result
TaskResult(state, cat, well) == [state |-> state, seismiccatalog |-> cat, well |-> well]

\* obj in self.session(): the snapshot objects persisted for the forecast
InSession(obj) == obj \in dbCatalog \cup dbWell

InitSnap ==
    /\ forecastStatus = "RUNNING"
    /\ scenario = IdleScenario
    /\ WorkersIdle
    /\ FlowIdle
    /\ aggPc = "off"
    /\ dbCatalog \in {{}, {<<"catalog", 1>>}}
    /\ dbWell \in {{}, {<<"well", 1>>}}
    /\ snapResult = [k \in {"catalog", "well"} |-> TaskResult("pending", <<>>, <<>>)]
    /\ snapWrites = 0
    /\ ExtIdle

\* the catalog snapshot task ends and
\* ForecastHandler.catalog_snapshot_state_handler sees its final state
CatalogSnapshotStateHandler ==
    /\ snapResult["catalog"].state = "pending"
    /\ \/ \* skipped or failed: task_finished / successful_result do not hold
          /\ snapResult' = [snapResult EXCEPT !["catalog"] = TaskResult("no_result", <<>>, <<>>)]
          /\ wpc' = wpc
       \/ \E cat \in SnapLists(CatalogObjs) :
             /\ snapResult' = [snapResult EXCEPT !["catalog"] =
                                  TaskResult("Success", cat, <<>>)]
             /\ wpc' = Start(W_CATALOG)
    /\ UNCHANGED <<extVars, forecastStatus, scenario, reserved, flowVars, aggPc,
                   dbCatalog, dbWell, snapWrites>>

\* the well snapshot task ends and
\* ForecastHandler.well_snapshot_state_handler sees its final state
WellSnapshotStateHandler ==
    /\ snapResult["well"].state = "pending"
    /\ \/ /\ snapResult' = [snapResult EXCEPT !["well"] = TaskResult("no_result", <<>>, <<>>)]
          /\ wpc' = wpc
       \/ \E cat \in SnapLists(CatalogObjs) : \E well \in SnapLists(WellObjs) :
             /\ snapResult' = [snapResult EXCEPT !["well"] =
                                  TaskResult("Success", cat, well)]
             /\ wpc' = Start(W_WELL)
    /\ UNCHANGED <<extVars, forecastStatus, scenario, reserved, flowVars, aggPc,
                   dbCatalog, dbWell, snapWrites>>

\* ForecastHandler.add_catalog, then Worker.run releases the token; an
\* exception in the callback leaves Worker.run before the release
AddCatalog ==
    /\ wpc[W_CATALOG] = "run"
    /\ LET forecast == snapResult["catalog"] IN
       IF Len(forecast.seismiccatalog) # 1
       THEN \* AssertionError
            /\ wpc' = [wpc EXCEPT ![W_CATALOG] = "raised"]
            /\ UNCHANGED <<reserved, dbCatalog, snapWrites>>
       ELSE /\ IF ~InSession(forecast.seismiccatalog[1])
               THEN /\ dbCatalog' = dbCatalog \cup {forecast.seismiccatalog[1]}
                    /\ snapWrites' = snapWrites + 1
               ELSE UNCHANGED <<dbCatalog, snapWrites>>
            /\ reserved' = FALSE
            /\ wpc' = [wpc EXCEPT ![W_CATALOG] = "done"]
    /\ UNCHANGED <<extVars, forecastStatus, scenario, flowVars, aggPc, dbWell, snapResult>>

\* ForecastHandler.add_well, then Worker.run releases the token; an
\* exception in the callback leaves Worker.run before the release
AddWell ==
    /\ wpc[W_WELL] = "run"
    /\ LET forecast == snapResult["well"] IN
       IF Len(forecast.well) # 1 \/ Len(forecast.seismiccatalog) = 0
       THEN \* AssertionError, or IndexError on forecast.seismiccatalog[0]
            /\ wpc' = [wpc EXCEPT ![W_WELL] = "raised"]
            /\ UNCHANGED <<reserved, dbWell, snapWrites>>
       ELSE /\ IF ~InSession(forecast.seismiccatalog[1])
               THEN /\ dbWell' = dbWell \cup {forecast.well[1]}
                    /\ snapWrites' = snapWrites + 1
               ELSE UNCHANGED <<dbWell, snapWrites>>
            /\ reserved' = FALSE
            /\ wpc' = [wpc EXCEPT ![W_WELL] = "done"]
    /\ UNCHANGED <<extVars, forecastStatus, scenario, flowVars, aggPc, dbCatalog, snapResult>>

NextSnap ==
    \/ CatalogSnapshotStateHandler
    \/ WellSnapshotStateHandler
    \/ AddCatalog
    \/ AddWell
    \/ \E w \in SnapWorkers : WorkerPass(w)
    \/ \E w \in SnapWorkers : WorkerTimeout(w)
    \/ \E w \in SnapWorkers : WorkerReserve(w)

SpecSnap == InitSnap /\ [][NextSnap]_vars

\* C10: a forecast never holds more than one catalog snapshot or more than
\* one well snapshot, and a snapshot callback that runs for a forecast which
\* already owns a snapshot of its kind adds nothing and writes nothing.
C10_AtMostOneSnapshot ==
    /\ [](Cardinality(dbCatalog) <= 1 /\ Cardinality(dbWell) <= 1)
    /\ [][(wpc[W_CATALOG] = "run" /\ wpc'[W_CATALOG] = "done" /\ dbCatalog # {})
             => UNCHANGED <<dbCatalog, snapWrites>>]_vars
    /\ [][(wpc[W_WELL] = "run" /\ wpc'[W_WELL] = "done" /\ dbWell # {})
             => UNCHANGED <<dbWell, snapWrites>>]_vars

\* C27: when the well snapshot task has succeeded with one well snapshot and
\* the forecast owns no well snapshot yet, the callback adds that snapshot
\* to the session and writes it, whatever catalog snapshots there are
C27_WellSnapshotPersisted ==
    [][(AddWell /\ dbWell = {} /\ Len(snapResult["well"].well) = 1)
          => /\ dbWell' = {snapResult["well"].well[1]}
             /\ snapWrites' = snapWrites + 1]_vars

\* C28: the token is reserved only while a Worker that reserved it is inside
\* its callback: a Worker whose callback has ended, by returning or by
\* raising, has released it
C28_TokenReleasedAtEnd ==
    reserved => \E w \in TokenWorkers : InCallback(w)

\* =============================================================== Simulator
\* The Controller drives the Simulator: start_simulation, pause and stop are
\* the user's operations, the timer and the step signal deliver the time
\* steps. Times are whole milliseconds: the timer step 200 / 1000.0 * speed
\* seconds is a whole number of milliseconds for the whole-number speeds
\* below, and timedelta keeps it exactly.

MaxWindowEnd == 5
MaxSpeed == 2
MaxConnections == 2
MaxQueued == 2

\* time_range arguments: start and end in steps of 100 ms
TimeRanges == {<<a * 100, b * 100>> : a \in 0..1, b \in 1..MaxWindowEnd}

\* speed arguments of Controller.start_simulation; -1 asks for stepping on
\* the engine's forecast_complete signal
Speeds == 1..MaxSpeed

\* dt = timedelta(hours=forecast_interval) of the step-signal mode, here in ms
TriggerDts == {300}

simulation_interval == 200

DefaultSpeed == 1000

\* the time start() leaves in simulation_time
StartTimeAlwaysReset(state, time, range) == range[1]

StartTime(state, time, range) ==
    IF state # "PAUSED" THEN range[1] ELSE time

\* the test that ends the simulation
simulation_ended_strict(time, range) == time > range[2]

simulation_ended(time, range) == time >= range[2]

\* dt of a time step of the internal timer, in milliseconds
TimerStepNoSpeed(s) == simulation_interval

TimerStep(s) == simulation_interval * s

\* Simulator.start(), with the configuration it finds
SimStart(range, ext) ==
    /\ range # <<>>
    /\ simulation_time' = StartTime(simState, simulation_time, range)
    /\ ticks' = IF simState # "PAUSED" THEN 0 ELSE ticks
    /\ handlerCalls' = IF simState # "PAUSED" THEN 0 ELSE handlerCalls
    /\ simState' = "RUNNING"
    /\ IF ext
       THEN /\ connections < MaxConnections
            /\ queuedSteps < MaxQueued
            /\ connections' = connections + 1
            /\ queuedSteps' = queuedSteps + 1
            /\ UNCHANGED timerActive
       ELSE /\ timerActive' = TRUE
            /\ UNCHANGED <<connections, queuedSteps>>
    /\ lastCall' = "start"
    /\ stopIgnored' = FALSE
    /\ UNCHANGED <<handlerArg, timeAtPause>>

\* Controller.start_simulation(time_range, speed): a stopped simulator is
\* configured first
StartSimulation ==
    \E range \in TimeRanges, s \in Speeds \cup {-1}, dt \in TriggerDts :
        IF simState = "STOPPED"
        THEN /\ time_range' = range
             /\ speed' = IF s = -1 THEN DefaultSpeed ELSE s
             /\ external_signal' = (s = -1)
             /\ stepDt' = IF s = -1 THEN dt ELSE 0
             /\ SimStart(range, s = -1)
             /\ UNCHANGED <<simRest>>
        ELSE /\ SimStart(time_range, external_signal)
             /\ UNCHANGED <<time_range, speed, external_signal, stepDt, simRest>>

\* Controller.pause() -> Simulator.pause()
PauseSimulation ==
    /\ simState = "RUNNING"
    /\ timerActive' = IF external_signal THEN timerActive ELSE FALSE
    /\ simState' = "PAUSED"
    /\ lastCall' = "pause"
    /\ timeAtPause' = simulation_time
    /\ stopIgnored' = FALSE
    /\ UNCHANGED <<simulation_time, time_range, speed, external_signal, stepDt,
                   connections, queuedSteps, ticks, handlerCalls, handlerArg,
                   simRest>>

\* Simulator.stop(); disconnect takes one connection of the slot away, or
\* every one, depending on the binding
SimStop ==
    /\ IF external_signal
       THEN /\ connections > 0
            /\ connections' \in {connections - 1, 0}
            /\ UNCHANGED timerActive
       ELSE /\ timerActive' = FALSE
            /\ UNCHANGED connections
    /\ simState' = "STOPPED"
    /\ lastCall' = "stop"

\* Controller.stop(): Simulator.stop() when the simulator is RUNNING,
\* nothing otherwise
StopSimulation ==
    /\ IF simState = "RUNNING"
       THEN /\ SimStop
            /\ stopIgnored' = FALSE
       ELSE /\ stopIgnored' = TRUE
            /\ UNCHANGED <<simState, timerActive, connections, lastCall>>
    /\ UNCHANGED <<simulation_time, time_range, speed, external_signal, stepDt,
                   queuedSteps, ticks, handlerCalls, handlerArg, timeAtPause,
                   simRest>>

\* a time step that is skipped only when the simulator is STOPPED
SkipsStopped(state) == state = "STOPPED"

\* if self.state != SimulatorState.RUNNING: return
Skips(state) == state # "RUNNING"

\* Simulator._simulate_time_step()
SimulateTimeStep ==
    IF Skips(simState)
    THEN UNCHANGED <<simState, simulation_time, timerActive, connections,
                     ticks, handlerCalls, handlerArg, lastCall>>
    ELSE LET dt == IF ~external_signal THEN TimerStep(speed) ELSE stepDt
             t == simulation_time + dt
         IN  /\ simulation_time' = t
             /\ ticks' = ticks + 1
             /\ handlerCalls' = handlerCalls + 1
             /\ handlerArg' = t
             /\ IF simulation_ended(t, time_range)
                THEN SimStop
                ELSE UNCHANGED <<simState, timerActive, connections, lastCall>>

\* the internal timer times out
TimerTick ==
    /\ timerActive
    /\ SimulateTimeStep
    /\ UNCHANGED <<time_range, speed, external_signal, stepDt, queuedSteps,
                   timeAtPause, stopIgnored, simRest>>

\* the event loop delivers a posted call: the single shot of start() or a
\* queued delivery of the step signal
QueuedStep ==
    /\ queuedSteps > 0
    /\ queuedSteps' = queuedSteps - 1
    /\ SimulateTimeStep
    /\ UNCHANGED <<time_range, speed, external_signal, stepDt, timeAtPause,
                   stopIgnored, simRest>>

\* the engine emits forecast_complete: one queued delivery per connection
StepSignal ==
    /\ connections > 0
    /\ queuedSteps + connections <= MaxQueued
    /\ queuedSteps' = queuedSteps + connections
    /\ UNCHANGED <<simState, simulation_time, time_range, speed,
                   external_signal, stepDt, timerActive, connections, ticks,
                   handlerCalls, handlerArg, lastCall, timeAtPause,
                   stopIgnored, simRest>>

InitSim ==
    /\ forecastStatus = "PENDING"
    /\ scenario = IdleScenario
    /\ WorkersIdle
    /\ FlowIdle
    /\ aggPc = "off"
    /\ SnapIdle
    /\ ExtIdle

NextSim ==
    \/ StartSimulation
    \/ PauseSimulation
    \/ StopSimulation
    \/ TimerTick
    \/ QueuedStep
    \/ StepSignal

SpecSim == InitSim /\ [][NextSim]_vars

\* C11: a start() that finds the simulator PAUSED leaves simulation_time as
\* it is, every other start() sets it to the start of the window; so start()
\* right after pause() continues at the time of the pause and start() right
\* after stop() begins at the start of the window
C11_StartResetsUnlessPaused ==
    [][StartSimulation
         => /\ IF simState = "PAUSED"
               THEN simulation_time' = simulation_time
               ELSE simulation_time' = time_range'[1]
            /\ lastCall = "pause" => simulation_time' = timeAtPause
            /\ lastCall = "stop" => simulation_time' = time_range'[1]]_vars

\* a resumed simulation that had advanced, and a restarted one
C11_Witness ==
    /\ lastCall = "start"
    /\ simState = "RUNNING"
    /\ simulation_time = timeAtPause
    /\ simulation_time > time_range[1]
    /\ ticks > 0

\* a time step the simulator processes: it is RUNNING when the step arrives
ProcessedStep == (TimerTick \/ QueuedStep) /\ simState = "RUNNING"

\* C12: the time step that brings simulation_time to the end of the window
\* or past it calls the handler with that time and leaves the simulator
\* STOPPED; while it is STOPPED no step other than a start changes
\* simulation_time or calls the handler
C12_StopsAtWindowEnd ==
    [][/\ ProcessedStep /\ simulation_time' >= time_range[2]
          => /\ handlerCalls' = handlerCalls + 1
             /\ handlerArg' = simulation_time'
             /\ simState' = "STOPPED"
       /\ simState = "STOPPED" /\ ~StartSimulation
          => /\ simState' = "STOPPED"
             /\ UNCHANGED <<simulation_time, handlerCalls, handlerArg>>]_vars

\* stopped by the step that crossed the end
C12_Witness ==
    /\ simState = "STOPPED"
    /\ lastCall = "stop"
    /\ ticks > 0
    /\ simulation_time >= time_range[2]
    /\ handlerArg = simulation_time

\* C31: a Controller.stop() made while the simulator is PAUSED leaves it
\* STOPPED
C31_StopFromPaused ==
    [][(StopSimulation /\ simState = "PAUSED") => simState' = "STOPPED"]_vars

\* C39: a time step delivered while the simulator is not RUNNING, by the
\* timer or by the event loop, leaves the state, the simulation time and
\* the handler alone
C39_TickIgnoredUnlessRunning ==
    [][((TimerTick \/ QueuedStep) /\ simState # "RUNNING")
          => UNCHANGED <<simState, simulation_time, handlerCalls, handlerArg,
                         ticks, timerActive, connections, lastCall>>]_vars

\* the step posted by start() has been delivered after pause(), before any
\* step was simulated
C39_Witness ==
    /\ external_signal
    /\ simState = "PAUSED"
    /\ lastCall = "pause"
    /\ queuedSteps = 0
    /\ handlerCalls = 0
    /\ ticks = 0

\* C30: with the step signal as trigger, a firing while the simulator is
\* RUNNING posts one call of the time step, and a posted call that finds the
\* simulator RUNNING advances simulation_time by one dt and calls the
\* handler once
C30_OneStepPerTrigger ==
    /\ [][(StepSignal /\ simState = "RUNNING" /\ external_signal)
             => queuedSteps' = queuedSteps + 1]_vars
    /\ [][(QueuedStep /\ simState = "RUNNING" /\ external_signal)
             => /\ simulation_time' = simulation_time + stepDt
                /\ handlerCalls' = handlerCalls + 1]_vars

\* C13: with the internal timer at speed s, simulation_time is the start of
\* the window plus N * 0.2 * s seconds (N * 200 * s ms), N the number of time
\* steps processed since the last reset
C13_LinearTimeAdvance ==
    (~external_signal /\ time_range # <<>>)
        => simulation_time = time_range[1] + ticks * 200 * speed

\* several steps at a speed other than 1, across a pause
C13_Witness ==
    /\ ~external_signal
    /\ speed = 2
    /\ ticks >= 2
    /\ timeAtPause > time_range[1]
    /\ timeAtPause < simulation_time

\* ==================================================================== Jobs
\* The job tree of forecastjob.py on the Job classes of tools/job.py: a
\* ForecastJob (serial) of one ScenarioJob (serial) of a ForecastStage
\* (parallel, one SeismicityForecast per enabled model), a HazardStage and a
\* RiskStage. All objects live in one thread and the signals are connected
\* directly, so everything a notification sets off runs before the emitting
\* call returns.


MaxJobRuns == 2
MaxDuplicates == 1

FORECAST_JOB == <<"forecast_job", 0>>
SCENARIO_JOB == <<"scenario_job", 0>>
FORECAST_STAGE == <<"forecast_stage", 0>>
HAZARD_STAGE == <<"psha_stage", 0>>
RISK_STAGE == <<"risk_stage", 0>>
NO_UNIT == <<"none", 0>>

ModelUnits == {<<"model", i>> : i \in 1..MaxModels}

SerialJobs == {FORECAST_JOB, SCENARIO_JOB}
ParallelJobs == {FORECAST_STAGE}
Jobs == SerialJobs \cup ParallelJobs
LeafUnits == ModelUnits \cup {HAZARD_STAGE, RISK_STAGE}
AllUnits == Jobs \cup LeafUnits

\* job.work_units, in list order; the forecast stage has one
\* SeismicityForecast per enabled model
work_units(j) ==
    CASE j = FORECAST_JOB -> <<SCENARIO_JOB>>
      [] j = SCENARIO_JOB -> <<FORECAST_STAGE, HAZARD_STAGE, RISK_STAGE>>
      [] j = FORECAST_STAGE -> [i \in 1..enabledModels |-> <<"model", i>>]

UnitSet(j) == {work_units(j)[k] : k \in 1..Len(work_units(j))}

\* the job whose on_status_changed is connected to the unit's status_changed
ParentOf(u) ==
    IF \E j \in Jobs : u \in UnitSet(j)
    THEN CHOOSE j \in Jobs : u \in UnitSet(j)
    ELSE NO_UNIT

\* JobStatus(sender, finished, info)
JobStatus(sender, finished, info) ==
    [sender |-> sender, finished |-> finished, info |-> info]

NoStatus == JobStatus(NO_UNIT, FALSE, "none")

\* info payloads of the notifications of a work unit
Infos == {"none", "response"}

\* what happened during the handling of one event, in order
Event(ev, by, status) == [ev |-> ev, by |-> by, status |-> status]

Log(st, ev, by, status) ==
    [st EXCEPT !.trace = Append(@, Event(ev, by, status))]

RECURSIVE Emit(_, _, _)
RECURSIVE OnStatusChanged(_, _, _)
RECURSIVE RunNext(_, _)
RECURSIVE RunUnit(_, _)
RECURSIVE RunUnits(_, _, _)

\* Job.on_status_changed without the forwarding emit
OnStatusChangedSilent(j, status, st) == st

\* Job.on_status_changed: forward the notification up the chain
JobOnStatusChanged(j, status, st) == Emit(j, status, st)

\* u.status_changed.emit(status): the slot connected by the work_units
\* setter of the parent runs
Emit(u, status, st) ==
    LET s1 == Log(st, "emit", u, status)
    IN  IF ParentOf(u) = NO_UNIT THEN s1
        ELSE OnStatusChanged(ParentOf(u), status, s1)

\* the job's own notification without the post_process hook
EmitFinishedNoPost(j, st) ==
    Emit(j, JobStatus(j, TRUE, "none"),
         [st EXCEPT !.finishedEmitted[j] = @ + 1, !.unitState[j] = "done"])

\* self.post_process(); self.status_changed.emit(JobStatus(self, finished=True))
EmitFinished(j, st) ==
    LET s1 == Log(st, "post_process", j, NoStatus)
        s2 == [s1 EXCEPT !.finishedEmitted[j] = @ + 1, !.unitState[j] = "done"]
    IN  Emit(j, JobStatus(j, TRUE, "none"), s2)

\* ParallelJob: len(self.work_units) == len(self._completed_units)
AllCompleted(units, completed) == Len(units) = Len(completed)

\* SerialJob.on_status_changed / ParallelJob.on_status_changed
OnStatusChanged(j, status, st) ==
    LET s1 == JobOnStatusChanged(j, status, st)
    IN  IF status.sender \in UnitSet(j) /\ status.finished
        THEN IF j \in SerialJobs
             THEN RunNext(j, [s1 EXCEPT !.reportedUnits[j] = @ \cup {status.sender}])
             ELSE LET s2 == [s1 EXCEPT
                                !.completedUnits[j] = Append(@, status.sender),
                                !.reportedUnits[j] = @ \cup {status.sender}]
                  IN  IF AllCompleted(work_units(j), s2.completedUnits[j])
                      THEN EmitFinished(j, s2)
                      ELSE s2
        ELSE s1

\* SerialJob._run_next with any unit left: the serial job that does not wait
RunNextAll(j, st) ==
    LET k == st.jobIter[j]
    IN  IF k = 0 THEN Log(st, "raise", j, NoStatus)
        ELSE IF k > Len(work_units(j))
        THEN EmitFinished(j, [st EXCEPT !.jobIter[j] = 0])
        ELSE RunNext(j, RunUnit(work_units(j)[k],
                           [st EXCEPT !.jobIter[j] = k + 1,
                                      !.startedUnits[j] = Append(@, work_units(j)[k])]))

\* SerialJob._run_next; iter is the position of the iterator, 0 for None:
\* next(None) raises a TypeError inside the slot
RunNext(j, st) ==
    LET k == st.jobIter[j]
    IN  IF k = 0 THEN Log(st, "raise", j, NoStatus)
        ELSE IF k > Len(work_units(j))
        THEN EmitFinished(j, [st EXCEPT !.jobIter[j] = 0])
        ELSE RunUnit(work_units(j)[k],
                     [st EXCEPT !.jobIter[j] = k + 1,
                                !.startedUnits[j] = Append(@, work_units(j)[k])])

\* for unit in self.work_units: unit.run(), from the k-th unit on
RunUnits(j, k, st) ==
    IF k > Len(work_units(j)) THEN st
    ELSE RunUnits(j, k + 1,
                  RunUnit(work_units(j)[k],
                          [st EXCEPT !.startedUnits[j] = Append(@, work_units(j)[k])]))

\* unit.run(): SerialJob.run, ParallelJob.run, or a work unit that starts
\* its work and reports later
RunUnit(u, st) ==
    LET s1 == Log([st EXCEPT !.unitState[u] = "running"], "run", u, NoStatus)
    IN  IF u \in SerialJobs
        THEN RunNext(u, [s1 EXCEPT !.jobIter[u] = 1, !.startedUnits[u] = <<>>,
                                   !.reportedUnits[u] = {}, !.finishedEmitted[u] = 0])
        ELSE IF u \in ParallelJobs
        THEN RunUnits(u, 1, [s1 EXCEPT !.completedUnits[u] = <<>>,
                                       !.startedUnits[u] = <<>>, !.reportedUnits[u] = {},
                                       !.finishedEmitted[u] = 0])
        ELSE s1

\* the fields of the jobs and units before an event is handled
JobState ==
    [jobIter |-> jobIter, completedUnits |-> completedUnits,
     unitState |-> unitState, startedUnits |-> startedUnits,
     reportedUnits |-> reportedUnits, finishedEmitted |-> finishedEmitted,
     trace |-> <<>>]

\* the fields after it
JobStep(st) ==
    /\ jobIter' = st.jobIter
    /\ completedUnits' = st.completedUnits
    /\ unitState' = st.unitState
    /\ startedUnits' = st.startedUnits
    /\ reportedUnits' = st.reportedUnits
    /\ finishedEmitted' = st.finishedEmitted
    /\ trace' = st.trace

\* the engine runs the forecast job; it runs one forecast at a time
JobRun ==
    /\ unitState[FORECAST_JOB] # "running"
    /\ jobRuns < MaxJobRuns
    /\ jobRuns' = jobRuns + 1
    /\ JobStep(RunUnit(FORECAST_JOB, JobState))
    /\ UNCHANGED <<enabledModels, duplicates, jobRest>>

\* a running work unit emits a notification with finished=False
UnitNotifies(u) ==
    /\ unitState[u] = "running"
    /\ \E info \in Infos : JobStep(Emit(u, JobStatus(u, FALSE, info), JobState))
    /\ UNCHANGED <<jobRuns, enabledModels, duplicates, jobRest>>

\* a running work unit ends its run() with JobStatus(self, finished=True)
UnitFinishes(u) ==
    /\ unitState[u] = "running"
    /\ \E info \in Infos :
           JobStep(Emit(u, JobStatus(u, TRUE, info),
                        [JobState EXCEPT !.unitState[u] = "done"]))
    /\ UNCHANGED <<jobRuns, enabledModels, duplicates, jobRest>>

\* a work unit that has reported finished reports it once more
UnitFinishesAgain(u) ==
    /\ unitState[u] = "done"
    /\ duplicates < MaxDuplicates
    /\ duplicates' = duplicates + 1
    /\ \E info \in Infos : JobStep(Emit(u, JobStatus(u, TRUE, info), JobState))
    /\ UNCHANGED <<jobRuns, enabledModels, jobRest>>

InitJob ==
    /\ forecastStatus = "PENDING"
    /\ scenario = IdleScenario
    /\ WorkersIdle
    /\ FlowIdle
    /\ aggPc = "off"
    /\ SnapIdle
    /\ ExtIdle

NextJob ==
    \/ JobRun
    \/ \E u \in LeafUnits : UnitNotifies(u)
    \/ \E u \in LeafUnits : UnitFinishes(u)

\* work units that keep to WorkUnit's contract: one finished notification
\* at the end of run()
SpecJob == InitJob /\ [][NextJob]_vars

NextJobDup ==
    \/ NextJob
    \/ \E u \in LeafUnits : UnitFinishesAgain(u)

\* work units that may repeat their finished notification
SpecJobDup == InitJob /\ [][NextJobDup]_vars

\* the units of job j that have been run and have not reported finished
RunningUnits(j) == {u \in UnitSet(j) : unitState[u] = "running"}

OwnFinished(j) ==
    {i \in 1..Len(trace) : /\ trace[i].ev = "emit"
                           /\ trace[i].by = j
                           /\ trace[i].status.sender = j
                           /\ trace[i].status.finished}

C16_ParallelAllReported ==
    \A j \in ParallelJobs :
        /\ finishedEmitted[j] <= 1
        /\ finishedEmitted[j] = 1 => UnitSet(j) \subseteq reportedUnits[j]

\* the emit events of unit u in the trace carrying status s
Emissions(u, s) ==
    {i \in 1..Len(trace) : /\ trace[i].ev = "emit"
                           /\ trace[i].by = u
                           /\ trace[i].status = s}

\* C17: every status a work unit of a job emits is emitted by the job
\* itself exactly once, unchanged, at every level of the job tree
C17_ForwardedOnce ==
    \A j \in Jobs : \A i \in 1..Len(trace) :
        (trace[i].ev = "emit" /\ trace[i].by \in UnitSet(j))
            => Cardinality(Emissions(j, trace[i].status)) = 1

\* a model's notification with a payload has come out of the forecast job
C17_Witness ==
    \E u \in ModelUnits :
        /\ Emissions(u, JobStatus(u, FALSE, "response")) # {}
        /\ Emissions(FORECAST_JOB, JobStatus(u, FALSE, "response")) # {}
        /\ unitState[HAZARD_STAGE] = "idle"

\* the job tree of a project with any number of its models enabled
InitJobCfg ==
    /\ forecastStatus = "PENDING"
    /\ scenario = IdleScenario
    /\ WorkersIdle
    /\ FlowIdle
    /\ aggPc = "off"
    /\ SnapIdle
    /\ SimIdle
    /\ JobFieldsIdle
    /\ enabledModels \in 0..MaxModels
    /\ DsIdle
    /\ OqIdle
    /\ StoreIdle
    /\ ConnIdle
    /\ DlgIdle
    /\ BndIdle
    /\ CsvIdle
    /\ RecentIdle
    /\ ClientIdle
    /\ CatalogIdle
    /\ ImporterIdle
    /\ SfmIdle

SpecJobCfg == InitJobCfg /\ [][NextJob]_vars

\* C32: a parallel job without work units that has been run has emitted its
\* own finished status
C32_EmptyParallelFinishes ==
    \A j \in ParallelJobs :
        (Len(work_units(j)) = 0 /\ unitState[j] # "idle")
            => finishedEmitted[j] = 1

\* ============================================================ Data sources
\* The Controller owns one FDSNWSDataSource and one HYDWSDataSource, enables
\* them from the project settings and calls fetch(); run() is the body of
\* the source's thread.

MaxFetches == 3

DataSources == {"fdsnws", "hydws"}

\* the attributes __init__ assigns to the instance
InitAttrs(d) ==
    IF d = "fdsnws"
    THEN {"url", "_timeout", "_args", "enabled", "logger", "_deserializer"}
    ELSE {"url", "_args", "enabled", "logger", "_deserializer"}

\* the attributes the debug message at the top of run() formats
DebugReads == {"logger", "_url", "_params"}

\* the attributes the request and the deserialization read
RequestReads == {"url", "_args", "_timeout", "_deserializer"}

\* reading an attribute the instance does not have raises AttributeError
RaisesAttributeError(d, reads) == reads \ InitAttrs(d) # {}

\* how the request and the deserialization can end: an object, no content,
\* a request error, a deserialization error
Outcomes == {"object", "NoContent", "RequestsError", "IOError"}

FailureOutcomes == {"RequestsError", "IOError"}

\* Controller._update_data_sources: the enable flag follows the settings
SetEnabled(d) ==
    /\ dsEnabled' = [dsEnabled EXCEPT ![d] = ~@]
    /\ UNCHANGED <<dsArgs, dsThread, dsFetches, dsReceived, dsPayload,
                   dsEscaped, dsLogged, dsOutcome, dsRest>>

\* fetch(**kwargs); QThread.start() does nothing on a thread that runs
Fetch(d) ==
    /\ dsFetches[d] < MaxFetches
    /\ \E args \in {"none", "kwargs"} : dsArgs' = [dsArgs EXCEPT ![d] = args]
    /\ IF dsEnabled[d]
       THEN /\ dsFetches' = [dsFetches EXCEPT ![d] = @ + 1]
            /\ dsThread' = [dsThread EXCEPT ![d] = "started"]
       ELSE UNCHANGED <<dsFetches, dsThread>>
    /\ UNCHANGED <<dsEnabled, dsReceived, dsPayload, dsEscaped, dsLogged,
                   dsOutcome, dsRest>>

\* run() on the source's thread, the web service answering with out
DataSourceRun(d) ==
    /\ dsThread[d] = "started"
    /\ dsThread' = [dsThread EXCEPT ![d] = "idle"]
    /\ \E out \in Outcomes :
        /\ dsOutcome' = [dsOutcome EXCEPT ![d] = out]
        /\ IF RaisesAttributeError(d, DebugReads)
              \/ RaisesAttributeError(d, RequestReads)
           THEN /\ dsEscaped' = [dsEscaped EXCEPT ![d] = @ + 1]
                /\ UNCHANGED <<dsReceived, dsPayload, dsLogged>>
           ELSE /\ dsReceived' = [dsReceived EXCEPT ![d] = @ + 1]
                /\ dsPayload' = [dsPayload EXCEPT
                                   ![d] = IF out = "object" THEN "object"
                                          ELSE "None"]
                /\ dsLogged' = [dsLogged EXCEPT
                                  ![d] = IF out \in FailureOutcomes
                                         THEN @ + 1 ELSE @]
                /\ UNCHANGED dsEscaped
    /\ UNCHANGED <<dsEnabled, dsArgs, dsFetches, dsRest>>

InitDs ==
    /\ forecastStatus = "PENDING"
    /\ scenario = IdleScenario
    /\ WorkersIdle
    /\ FlowIdle
    /\ aggPc = "off"
    /\ SnapIdle
    /\ ExtIdle

NextDs ==
    \/ \E d \in DataSources : SetEnabled(d)
    \/ \E d \in DataSources : Fetch(d)
    \/ \E d \in DataSources : DataSourceRun(d)

SpecDs == InitDs /\ [][NextDs]_vars

\* C18: once the thread of a data source is idle again, the source has
\* emitted data_received once for every fetch() made while it was enabled
C18_OneDataReceivedPerFetch ==
    \A d \in DataSources :
        dsThread[d] = "idle" => dsReceived[d] = dsFetches[d]

\* C19: no exception has left run(), and a run whose request or
\* deserialization failed has logged the error and emitted data_received
\* with None
C19_FailureEmitsNone ==
    \A d \in DataSources :
        /\ dsEscaped[d] = 0
        /\ (dsOutcome[d] \in FailureOutcomes /\ dsThread[d] = "idle")
               => /\ dsPayload[d] = "None"
                  /\ dsLogged[d] > 0

\* =========================================================== OQ controller
\* _OqController on the main thread, its _OqRunner on the OQ thread; the
\* runner's job_complete crosses threads and is delivered by the main event
\* loop.

MaxOqCalls == 4

JobTypes == {"hazard", "risk"}

\* the guard of run_hazard / run_risk_poe without the busy flag
AcceptsAlways(busy) == TRUE

\* if self.busy: raise RuntimeError('OQ jobs cannot run concurrently')
Accepts(busy) == ~busy

\* run_hazard(source_params, callback) / run_risk_poe(psha_job_id, callback);
\* preparing the inputs in the job directory may fail before anything starts
RunOqJob(type) ==
    /\ oqCalls < MaxOqCalls
    /\ oqCalls' = oqCalls + 1
    /\ IF ~Accepts(oqBusy)
       THEN /\ oqRaised' = TRUE
            /\ UNCHANGED <<oqBusy, oqThread, oqJobInput, oqCallback,
                           oqInProgress>>
       ELSE \E prepared \in BOOLEAN :
            IF ~prepared
            THEN /\ oqRaised' = TRUE
                 /\ UNCHANGED <<oqBusy, oqThread, oqJobInput, oqCallback,
                                oqInProgress>>
            ELSE /\ oqRaised' = FALSE
                 /\ oqJobInput' = type
                 /\ oqCallback' = type
                 /\ oqBusy' = TRUE
                 /\ oqThread' = IF oqThread = "stopped" THEN "started"
                                ELSE oqThread
                 /\ oqInProgress' = oqInProgress + 1
    /\ UNCHANGED <<oqProc, oqPending, oqCallbacks, oqRest>>

RunHazard == RunOqJob("hazard")

RunRiskPoe == RunOqJob("risk")

\* _OqRunner.run up to Popen, on the started thread
RunnerRun ==
    /\ oqThread = "started"
    /\ oqJobInput \in JobTypes
    /\ oqThread' = "running"
    /\ oqProc' = oqJobInput
    /\ UNCHANGED <<oqBusy, oqJobInput, oqCallback, oqPending, oqInProgress,
                   oqCalls, oqRaised, oqCallbacks, oqRest>>

\* proc.communicate() returns; _process_oq_output raises on a non-zero exit
\* code or a missing completion line, else job_complete is emitted
ProcessEnds ==
    /\ oqProc \in JobTypes
    /\ oqProc' = "none"
    /\ oqInProgress' = oqInProgress - 1
    /\ \E ok \in BOOLEAN : oqPending' = ok
    /\ UNCHANGED <<oqBusy, oqThread, oqJobInput, oqCallback, oqCalls,
                   oqRaised, oqCallbacks, oqRest>>

\* _OqController._job_complete(job_id)
JobComplete ==
    /\ oqPending
    /\ oqPending' = FALSE
    /\ oqBusy' = FALSE
    /\ oqThread' = "stopped"
    /\ oqCallbacks' = oqCallbacks + 1
    /\ UNCHANGED <<oqJobInput, oqCallback, oqProc, oqInProgress, oqCalls,
                   oqRaised, oqRest>>

InitOq ==
    /\ forecastStatus = "PENDING"
    /\ scenario = IdleScenario
    /\ WorkersIdle
    /\ FlowIdle
    /\ aggPc = "off"
    /\ SnapIdle
    /\ ExtIdle

NextOq ==
    \/ RunHazard
    \/ RunRiskPoe
    \/ RunnerRun
    \/ ProcessEnds
    \/ JobComplete

SpecOq == InitOq /\ [][NextOq]_vars

\* C20: at most one job is in progress, and a run_hazard or run_risk_poe
\* made while a job is in progress raises and starts nothing
C20_OneOqJob ==
    /\ [](oqInProgress <= 1)
    /\ [][(oqCalls' = oqCalls + 1 /\ oqInProgress > 0)
            => /\ oqRaised'
               /\ UNCHANGED <<oqBusy, oqThread, oqJobInput, oqCallback,
                              oqProc, oqInProgress>>]_vars

\* a call has been refused while the oq-engine process was running
C20_Witness ==
    /\ oqRaised
    /\ oqBusy
    /\ oqProc \in JobTypes
    /\ oqInProgress = 1
    /\ oqCalls >= 2

\* C33: once a job has ended and no completion is waiting to be delivered,
\* the busy flag is clear, whether the job succeeded or failed
C33_BusyClearedAfterJob ==
    (oqInProgress = 0 /\ ~oqPending) => ~oqBusy


\* ----------------------------------------------------------- EditingContext
\* bound: editing contexts created on the store
MaxContexts == 2

\* top-level objects the data base holds when the store is opened
TopObjects == {<<"top", 1>>, <<"top", 2>>}

\* the object reachable through a relationship of a top-level object
Related(o) == <<"related", o[2]>>

RelatedObjects == {Related(o) : o \in TopObjects}

\* objects created during editing
NewObjects == {<<"new", 1>>}

\* the objects a merge or a delete of `objs` cascades to
Cascade(objs) == objs \cup {Related(o) : o \in objs \cap TopObjects}

\* EditingContext.__init__: a fresh editing session, nothing tracked
NewContext ==
    /\ contexts < MaxContexts
    /\ contexts' = contexts + 1
    /\ edited' = {}
    /\ editSession' = {}
    /\ editDeleted' = {}
    /\ mainMerged' = {}
    /\ mainDeleted' = {}
    /\ ctxSaved' = FALSE
    /\ UNCHANGED <<dbObjs, commits, storeRest>>

\* EditingContext.get: merge the object into the editing session (the merge
\* cascades to related objects) and track the copy
Get(o) ==
    /\ contexts > 0
    /\ ~ctxSaved
    /\ o \in dbObjs
    /\ editSession' = editSession \cup Cascade({o})
    /\ edited' = edited \cup {o}
    /\ UNCHANGED <<dbObjs, editDeleted, mainMerged, mainDeleted, commits,
                   ctxSaved, contexts, storeRest>>

\* EditingContext.add: track a new top-level object
Add(o) ==
    /\ contexts > 0
    /\ ~ctxSaved
    /\ o \in NewObjects \ dbObjs
    /\ edited' = edited \cup {o}
    /\ UNCHANGED <<dbObjs, editSession, editDeleted, mainMerged, mainDeleted,
                   commits, ctxSaved, contexts, storeRest>>

\* EditingContext.delete: mark an object of the editing session as deleted
\* (the session refuses an object it does not hold)
Delete(o) ==
    /\ contexts > 0
    /\ ~ctxSaved
    /\ o \in editSession
    /\ editDeleted' = editDeleted \cup {o}
    /\ UNCHANGED <<dbObjs, edited, editSession, mainMerged, mainDeleted,
                   commits, ctxSaved, contexts, storeRest>>

\* the objects save() deletes in the main session: the tracked objects
\* found in _editing_session.deleted
SaveDeletes == edited \cap editDeleted

\* EditingContext.save: merge every tracked object into the main session,
\* delete those the editing session has marked, commit the main store
Save ==
    /\ contexts > 0
    /\ ~ctxSaved
    /\ mainMerged' = Cascade(edited)
    /\ mainDeleted' = SaveDeletes
    /\ dbObjs' = (dbObjs \cup mainMerged') \ Cascade(mainDeleted')
    /\ commits' = commits + 1
    /\ ctxSaved' = TRUE
    /\ UNCHANGED <<edited, editSession, editDeleted, contexts, storeRest>>

InitStore ==
    /\ forecastStatus = "PENDING"
    /\ scenario = IdleScenario
    /\ WorkersIdle
    /\ FlowIdle
    /\ aggPc = "off"
    /\ SnapIdle
    /\ SimIdle
    /\ JobIdle
    /\ DsIdle
    /\ OqIdle
    /\ ConnIdle
    /\ DlgIdle
    /\ BndIdle
    /\ CsvIdle
    /\ RecentIdle
    /\ ClientIdle
    /\ CatalogIdle
    /\ ImporterIdle
    /\ SfmIdle
    /\ dbObjs = TopObjects \cup RelatedObjects
    /\ edited = {}
    /\ editSession = {}
    /\ editDeleted = {}
    /\ mainMerged = {}
    /\ mainDeleted = {}
    /\ commits = 0
    /\ ctxSaved = FALSE
    /\ contexts = 0

NextStore ==
    \/ NewContext
    \/ \E o \in TopObjects \cup RelatedObjects \cup NewObjects : Get(o)
    \/ \E o \in NewObjects : Add(o)
    \/ \E o \in TopObjects \cup RelatedObjects \cup NewObjects : Delete(o)
    \/ Save

SpecStore == InitStore /\ [][NextStore]_vars

\* C21: once the editing context is saved, every object marked for deletion
\* through the context has been deleted in the main session and is gone from
\* the store, every other tracked object has been merged into the main
\* session, and the main store has been committed
C21_SaveCarriesDeletions ==
    ctxSaved =>
        /\ editDeleted \subseteq mainDeleted
        /\ editDeleted \cap dbObjs = {}
        /\ (edited \ editDeleted) \subseteq mainMerged
        /\ commits > 0


\* ------------------------------------------------------- Controller.connect
\* bound: calls of Controller.connect
MaxConnects == 6

\* urls of data bases that accept connections
ReachableUrls == {"db1", "db2"}

\* db_url values: a reachable data base, a well-formed url nothing answers
\* at, a string create_engine cannot parse
DbUrls == ReachableUrls \cup {"unreachable", "malformed"}

\* Store.__init__: create_engine parses the url without connecting
StoreInit(url) == IF url = "malformed" THEN "ArgumentError" ELSE "engine"

\* engine.connect(): the driver reports a failed connection as
\* OperationalError
EngineConnect(url) ==
    IF url \in ReachableUrls THEN "connection" ELSE "OperationalError"

\* Store.test_connection without its except clause
test_connection_uncaught(url) ==
    IF EngineConnect(url) = "connection" THEN "True" ELSE "raise"

\* Store.test_connection
test_connection(url) ==
    IF EngineConnect(url) = "OperationalError" THEN "False" ELSE "True"

\* Controller.disconnect, as the new values of store, project and the
\* number of store_changed emissions
Disconnected ==
    [store |-> "None", project |-> FALSE,
     changed |-> IF ctlStore # "None" THEN storeChanged + 1 ELSE storeChanged]

\* Controller.connect
Connect(url) ==
    /\ connCalls < MaxConnects
    /\ connCalls' = connCalls + 1
    /\ connUrl' = url
    /\ ctlProject' = Disconnected.project
    /\ IF StoreInit(url) # "engine"
       THEN /\ connReturn' = "raise"
            /\ ctlStore' = Disconnected.store
            /\ storeChanged' = Disconnected.changed
       ELSE LET ok == test_connection(url)
            IN  /\ connReturn' = ok
                /\ ctlStore' = IF ok = "True" THEN url ELSE Disconnected.store
                /\ storeChanged' = IF ok = "True"
                                   THEN Disconnected.changed + 1
                                   ELSE Disconnected.changed
    /\ UNCHANGED connRest

\* Controller.disconnect
Disconnect ==
    /\ ctlStore' = Disconnected.store
    /\ ctlProject' = Disconnected.project
    /\ storeChanged' = Disconnected.changed
    /\ UNCHANGED <<connReturn, connUrl, connCalls, connRest>>

\* Controller.open_project, for a project loaded from the active store
OpenProject ==
    /\ ctlStore # "None"
    /\ ctlProject' = TRUE
    /\ UNCHANGED <<ctlStore, connReturn, connUrl, connCalls, storeChanged,
                   connRest>>

InitConn ==
    /\ forecastStatus = "PENDING"
    /\ scenario = IdleScenario
    /\ WorkersIdle
    /\ FlowIdle
    /\ aggPc = "off"
    /\ SnapIdle
    /\ ExtIdle

NextConn ==
    \/ \E url \in DbUrls : Connect(url)
    \/ Disconnect
    \/ OpenProject

SpecConn == InitConn /\ [][NextConn]_vars

C36_FailedConnectKeepsStore ==
    [][\A url \in DbUrls :
          (Connect(url) /\ connReturn' = "False")
              => (ctlStore' = ctlStore /\ ctlProject' = ctlProject)]_vars


\* ------------------------------------------------------------------ dialogs
\* bound: the latest time a forecast date edit can hold
MaxTime == 2

Names == {"a", "b"}

\* reservoir geometries that are polyhedral surfaces
Geometries == {"poly1", "poly2"}

\* text of the reservoir geometry editor
GeometryTexts == Geometries \cup {"garbage"}

Times == 0..MaxTime

\* what the import dialog returned: nothing, a file the deserializer loads,
\* a file that cannot be opened or parsed
ImportRets == {"None", "readable", "unreadable"}

\* the scenarios and forecasts a dialog is opened with
Targets ==
    [name : {"a"}, geom : {"poly1"}, well : {"None", "InjectionWell"},
     config : {"cfg"}, seis : BOOLEAN, haz : BOOLEAN, risk : BOOLEAN,
     starttime : {0}, endtime : {1}]

is_phsf(text) == text \in Geometries

\* ScenarioConfigDialog._configure / ForecastConfigDialog._configure
Configure(t) ==
    [name |-> t.name, geom |-> t.geom, seis |-> t.seis, haz |-> t.haz,
     risk |-> t.risk, importRadio |-> FALSE, importRet |-> "None",
     starttime |-> t.starttime, endtime |-> t.endtime]

\* the error ScenarioConfigDialog._on_accept raises, or "none"
ScenarioError(w, t) ==
    IF (w.haz /\ ~w.seis) \/ (w.risk /\ ~(w.seis /\ w.haz))
    THEN "ValidationError"
    ELSE IF ~is_phsf(w.geom)
    THEN "ValidationError"
    ELSE IF w.importRadio /\ w.importRet # "None"
    THEN (IF w.importRet = "unreadable" THEN "DialogError" ELSE "none")
    ELSE IF t.well = "InjectionWell"
    THEN "none"
    ELSE "ValidationError"

\* the scenario after the assignments that end
\* ScenarioConfigDialog._on_accept
ScenarioCommit(w, t) ==
    [t EXCEPT !.config = "empty",
              !.name = w.name,
              !.geom = w.geom,
              !.well = IF w.importRadio /\ w.importRet # "None"
                       THEN "plan" ELSE t.well,
              !.seis = w.seis,
              !.haz = w.haz,
              !.risk = w.risk]

\* the error ForecastConfigDialog._on_accept raises, or "none"
ForecastError(w) ==
    IF w.endtime <= w.starttime THEN "ValidationError" ELSE "none"

ForecastCommit(w, t) ==
    [t EXCEPT !.name = w.name,
              !.starttime = w.starttime,
              !.endtime = w.endtime]

OnAcceptError(kind, w, t) ==
    IF kind = "scenario" THEN ScenarioError(w, t) ELSE ForecastError(w)

OnAccept(kind, w, t) ==
    IF OnAcceptError(kind, w, t) # "none" THEN t
    ELSE IF kind = "scenario" THEN ScenarioCommit(w, t)
    ELSE ForecastCommit(w, t)

\* DialogBase.accept without its except clause
accept_uncaught(err) ==
    IF err = "none"
    THEN [result |-> "Accepted", keepData |-> TRUE, raised |-> FALSE]
    ELSE [result |-> "none", keepData |-> TRUE, raised |-> TRUE]

\* DialogBase.accept: a DialogError of _on_accept is logged and the dialog
\* rejected, which clears _data
accept(err) ==
    IF err = "none"
    THEN [result |-> "Accepted", keepData |-> TRUE, raised |-> FALSE]
    ELSE [result |-> "Rejected", keepData |-> FALSE, raised |-> FALSE]

\* ScenarioConfigDialog.__init__ / ForecastConfigDialog.__init__
OpenDialog(kind, t) ==
    /\ dlgKind = "none"
    /\ dlgKind' = kind
    /\ dlgTarget' = t
    /\ dlgWidgets' = Configure(t)
    /\ dlgData' = "target"
    /\ UNCHANGED <<dlgResult, dlgRaised, dlgRest>>

\* the widget values one change by the user leads to
EditedWidgets(kind, w) ==
    ({[w EXCEPT !.name = v] : v \in Names}
     \cup (IF kind = "scenario"
           THEN {[w EXCEPT !.geom = v] : v \in GeometryTexts}
                \cup {[w EXCEPT !.seis = v] : v \in BOOLEAN}
                \cup {[w EXCEPT !.haz = v] : v \in BOOLEAN}
                \cup {[w EXCEPT !.risk = v] : v \in BOOLEAN}
                \cup {[w EXCEPT !.importRadio = v] : v \in BOOLEAN}
                \cup {[w EXCEPT !.importRet = v] : v \in ImportRets}
           ELSE {[w EXCEPT !.starttime = v] : v \in Times}
                \cup {[w EXCEPT !.endtime = v] : v \in Times}))
    \ {w}

\* the user changes one widget of the open dialog
EditWidget ==
    /\ dlgKind # "none"
    /\ dlgResult = "none"
    /\ ~dlgRaised
    /\ \E w \in EditedWidgets(dlgKind, dlgWidgets) : dlgWidgets' = w
    /\ UNCHANGED <<dlgKind, dlgTarget, dlgData, dlgResult, dlgRaised, dlgRest>>

\* DialogBase.accept
Accept ==
    /\ dlgKind # "none"
    /\ dlgResult = "none"
    /\ ~dlgRaised
    /\ LET err == OnAcceptError(dlgKind, dlgWidgets, dlgTarget)
           out == accept(err)
       IN  /\ dlgTarget' = OnAccept(dlgKind, dlgWidgets, dlgTarget)
           /\ dlgResult' = out.result
           /\ dlgData' = IF out.keepData THEN dlgData ELSE "None"
           /\ dlgRaised' = out.raised
    /\ UNCHANGED <<dlgKind, dlgWidgets, dlgRest>>

\* DialogBase.reject
Reject ==
    /\ dlgKind # "none"
    /\ dlgResult = "none"
    /\ ~dlgRaised
    /\ dlgData' = "None"
    /\ dlgResult' = "Rejected"
    /\ UNCHANGED <<dlgKind, dlgTarget, dlgWidgets, dlgRaised, dlgRest>>

InitDlg ==
    /\ forecastStatus = "PENDING"
    /\ scenario = IdleScenario
    /\ WorkersIdle
    /\ FlowIdle
    /\ aggPc = "off"
    /\ SnapIdle
    /\ ExtIdle

NextDlg ==
    \/ \E kind \in {"scenario", "forecast"}, t \in Targets : OpenDialog(kind, t)
    \/ EditWidget
    \/ Accept
    \/ Reject

SpecDlg == InitDlg /\ [][NextDlg]_vars

\* C23: an accept that fails validation lets no exception escape, ends the
\* dialog rejected with data None, and leaves the edited scenario or
\* forecast as it was
C23_FailedAcceptChangesNothing ==
    [][(Accept /\ OnAcceptError(dlgKind, dlgWidgets, dlgTarget) # "none")
          => /\ ~dlgRaised'
             /\ dlgResult' = "Rejected"
             /\ dlgData' = "None"
             /\ dlgTarget' = dlgTarget]_vars

\* a scenario dialog rejected by a failed accept although the user had
\* changed the name and the stages
C23_Witness ==
    /\ dlgKind = "scenario"
    /\ dlgResult = "Rejected"
    /\ dlgData = "None"
    /\ dlgWidgets.name # dlgTarget.name
    /\ dlgWidgets.haz /\ ~dlgWidgets.seis
    /\ ~dlgTarget.haz

\* a forecast dialog rejected by a failed accept
C23_WitnessForecast ==
    /\ dlgKind = "forecast"
    /\ dlgResult = "Rejected"
    /\ dlgWidgets.endtime <= dlgWidgets.starttime
    /\ dlgTarget.endtime > dlgTarget.starttime


\* ----------------------------------------------------------------- bindings
\* bound: the largest value a widget or a target holds
MaxValue == 3

\* bound: change signals a widget emits
MaxChanges == 3

Values == 0..MaxValue

\* validators: the default `lambda x: True`, one that rejects everything,
\* one that accepts the small values only
Validators == {"any", "nothing", "small"}

\* Binding.validate(value)
Validate(validator, value) ==
    CASE validator = "any" -> TRUE
      [] validator = "nothing" -> FALSE
      [] OTHER -> value <= 1

\* calls of the post-hook by a handler that does not look at the validation
PostCallsAlways(ok) == IF bndHasPost THEN 1 ELSE 0

\* calls of the post-hook made by on_widget_changed
PostCalls(ok) == IF ok /\ bndHasPost THEN 1 ELSE 0

\* the user changes the widget to `value`, the widget emits its change
\* signal and Binding.on_widget_changed runs
WidgetChanged(value) ==
    /\ bndChanges < MaxChanges
    /\ bndChanges' = bndChanges + 1
    /\ LET ok == Validate(bndValidate, value)
       IN  /\ bndTarget' = IF ok THEN value ELSE bndTarget
           /\ bndWidget' = IF ok THEN value ELSE bndTarget
           /\ bndPosts' = bndPosts + PostCalls(ok)
           /\ bndRefreshes' = IF ok THEN bndRefreshes ELSE bndRefreshes + 1
    /\ UNCHANGED <<bndValidate, bndHasPost, bndRest>>

\* the application assigns the bound attribute, dict entry or property
SetTarget(value) ==
    /\ value # bndTarget
    /\ bndTarget' = value
    /\ UNCHANGED <<bndWidget, bndValidate, bndHasPost, bndPosts, bndChanges,
                   bndRefreshes, bndRest>>

\* Binding.refresh_ui
RefreshUi ==
    /\ bndWidget # bndTarget
    /\ bndWidget' = bndTarget
    /\ UNCHANGED <<bndTarget, bndValidate, bndHasPost, bndPosts, bndChanges,
                   bndRefreshes, bndRest>>

\* the application assigns Binding.validate and Binding.post
SetHooks(validator, post) ==
    /\ <<validator, post>> # <<bndValidate, bndHasPost>>
    /\ bndValidate' = validator
    /\ bndHasPost' = post
    /\ UNCHANGED <<bndTarget, bndWidget, bndPosts, bndChanges, bndRefreshes,
                   bndRest>>

InitBnd ==
    /\ forecastStatus = "PENDING"
    /\ scenario = IdleScenario
    /\ WorkersIdle
    /\ FlowIdle
    /\ aggPc = "off"
    /\ SnapIdle
    /\ SimIdle
    /\ JobIdle
    /\ DsIdle
    /\ OqIdle
    /\ StoreIdle
    /\ ConnIdle
    /\ DlgIdle
    /\ CsvIdle
    /\ RecentIdle
    /\ ClientIdle
    /\ CatalogIdle
    /\ ImporterIdle
    /\ SfmIdle
    /\ bndTarget \in Values
    /\ bndWidget \in Values
    /\ bndValidate = "any"
    /\ bndHasPost = FALSE
    /\ bndPosts = 0
    /\ bndChanges = 0
    /\ bndRefreshes = 0

NextBnd ==
    \/ \E value \in Values : WidgetChanged(value)
    \/ \E value \in Values : SetTarget(value)
    \/ RefreshUi
    \/ \E validator \in Validators, post \in BOOLEAN : SetHooks(validator, post)

SpecBnd == InitBnd /\ [][NextBnd]_vars

\* C24: on a widget change the target takes the widget's value and the
\* post-hook is called once exactly when the validator accepts the value;
\* when it rejects, the target keeps its value, the widget is reset to it
\* and the post-hook is not called
C24_WidgetChange ==
    [][\A value \in Values :
          (WidgetChanged(value) /\ bndHasPost)
              => IF Validate(bndValidate, value)
                 THEN /\ bndTarget' = value
                      /\ bndWidget' = value
                      /\ bndPosts' = bndPosts + 1
                 ELSE /\ bndTarget' = bndTarget
                      /\ bndWidget' = bndTarget
                      /\ bndPosts' = bndPosts]_vars

\* one accepted and one rejected change: the target and the widget hold
\* the accepted value and the post-hook ran once
C24_Witness ==
    /\ bndChanges = 2
    /\ bndRefreshes = 1
    /\ bndPosts = 1
    /\ bndHasPost
    /\ bndValidate = "small"
    /\ bndTarget = 1
    /\ bndWidget = 1


\* --------------------------------------------------------- CsvEventImporter
\* bound: data rows of a csv file
MaxRows == 3

\* bound: operations made on one importer
MaxCsvOps == 4

\* the line after the last one
EndOfFile == csvLen + 1

\* every data row, in file order
AllRows == [i \in 1..csvLen |-> i]

\* the date conversion of __iter__ succeeds: float() parses relative dates
\* when _dates_are_relative is true, strptime() parses absolute ones
\* otherwise
DateParses(flag) ==
    IF flag = "True" THEN csvKind = "relative" ELSE csvKind = "absolute"

\* csv.DictReader takes the first line it reads as the field names, so the
\* date column is found only by a reader that starts at the header
HasDateField(pos) == pos = 0

\* the rows an iteration yields when the file is at `pos`
Iteration(pos, flag) ==
    IF HasDateField(pos) /\ DateParses(flag) THEN AllRows ELSE <<>>

\* where the file is after an iteration from `pos`: at its end, or behind
\* the row on which the iteration raised
AfterIteration(pos, flag) ==
    IF (HasDateField(pos) /\ DateParses(flag)) \/ pos + 1 > csvLen
    THEN EndOfFile
    ELSE pos + 2

\* where expects_base_date leaves the file when it does not rewind it
NoRewind(pos) == pos + 2

\* self.file.seek(0)
Rewind(pos) == 0

\* CsvEventImporter.expects_base_date
ExpectsBaseDate ==
    /\ csvOps < MaxCsvOps
    /\ csvOps' = csvOps + 1
    /\ csvLastOp' = "expects_base_date"
    /\ IF datesAreRelative # "None"
       THEN /\ csvRaised' = FALSE
            /\ UNCHANGED <<csvPos, datesAreRelative>>
       ELSE IF csvPos + 1 > csvLen
       THEN \* next(reader) finds no row: StopIteration
            /\ csvRaised' = TRUE
            /\ csvPos' = EndOfFile
            /\ UNCHANGED datesAreRelative
       ELSE IF ~HasDateField(csvPos)
       THEN \* first_row[self.date_field]: KeyError
            /\ csvRaised' = TRUE
            /\ csvPos' = csvPos + 2
            /\ UNCHANGED datesAreRelative
       ELSE /\ csvRaised' = FALSE
            /\ datesAreRelative' = IF csvKind = "relative" THEN "True"
                                   ELSE "False"
            /\ csvPos' = Rewind(csvPos)
    /\ UNCHANGED <<csvLen, csvKind, csvYielded, csvRest>>

\* CsvEventImporter.__iter__, run until it is exhausted or raises
Iterate ==
    /\ csvOps < MaxCsvOps
    /\ csvOps' = csvOps + 1
    /\ csvLastOp' = "iterate"
    /\ csvYielded' = Iteration(csvPos, datesAreRelative)
    /\ csvPos' = AfterIteration(csvPos, datesAreRelative)
    /\ csvRaised' = (csvPos + 1 <= csvLen /\ csvYielded' = <<>>)
    /\ UNCHANGED <<csvLen, csvKind, datesAreRelative, csvRest>>

\* the caller rewinds the file handle
SeekStart ==
    /\ csvOps < MaxCsvOps
    /\ csvPos # 0
    /\ csvOps' = csvOps + 1
    /\ csvLastOp' = "seek"
    /\ csvPos' = 0
    /\ csvRaised' = FALSE
    /\ UNCHANGED <<csvLen, csvKind, datesAreRelative, csvYielded, csvRest>>

InitCsv ==
    /\ forecastStatus = "PENDING"
    /\ scenario = IdleScenario
    /\ WorkersIdle
    /\ FlowIdle
    /\ aggPc = "off"
    /\ SnapIdle
    /\ SimIdle
    /\ JobIdle
    /\ DsIdle
    /\ OqIdle
    /\ StoreIdle
    /\ ConnIdle
    /\ DlgIdle
    /\ BndIdle
    /\ RecentIdle
    /\ ClientIdle
    /\ CatalogIdle
    /\ ImporterIdle
    /\ SfmIdle
    /\ csvLen \in 0..MaxRows
    /\ csvKind \in {"relative", "absolute"}
    /\ csvPos = 0
    /\ datesAreRelative = "None"
    /\ csvYielded = <<>>
    /\ csvRaised = FALSE
    /\ csvLastOp = "none"
    /\ csvOps = 0

NextCsv ==
    \/ ExpectsBaseDate
    \/ Iterate
    \/ SeekStart

SpecCsv == InitCsv /\ [][NextCsv]_vars

\* C25: reading expects_base_date on a file that is at its start leaves the
\* file where a full iteration yields every row, the first included, and a
\* reading that returns never moves the file forward
C25_ReadConsumesNoRow ==
    [][ExpectsBaseDate =>
          /\ csvPos = 0 => Iteration(csvPos', datesAreRelative') = AllRows
          /\ ~csvRaised' => csvPos' <= csvPos]_vars

\* a full iteration made right after the first reading of expects_base_date
\* has yielded all rows of a file with several rows
C25_Witness ==
    /\ csvOps = 2
    /\ csvLastOp = "iterate"
    /\ datesAreRelative = "True"
    /\ csvLen >= 2
    /\ csvYielded = AllRows
    /\ ~csvRaised


\* ------------------------------------------------------------- recent files
\* bound: distinct project paths
MaxPaths == 5

\* bound: project openings
MaxOpens == 6

\* the length recent_files is cut to
RecentLimit == 4

Paths == 1..MaxPaths

\* no path given
NoPath == 0

\* list.index(path)
IndexOf(list, path) == CHOOSE i \in 1..Len(list) : list[i] = path

\* list.pop(i), as the list that is left
Without(list, i) == SubSeq(list, 1, i - 1) \o SubSeq(list, i + 1, Len(list))

\* the path goes to the front: moved when the list has it, inserted
\* otherwise
ToFront(list, path) ==
    IF \E i \in 1..Len(list) : list[i] = path
    THEN <<path>> \o Without(list, IndexOf(list, path))
    ELSE <<path>> \o list

\* the list when nothing is cut off
Uncut(list) == list

\* del recent_files[4:]
Cut(list) ==
    IF Len(list) > RecentLimit THEN SubSeq(list, 1, RecentLimit) ELSE list

\* MainWindow._open_project_at_path
OpenProjectAtPath(path) ==
    /\ opens < MaxOpens
    /\ opens' = opens + 1
    /\ IF path = NoPath
       THEN UNCHANGED <<recentStored, recentFiles, lastOpened>>
       ELSE /\ lastOpened' = path
            /\ recentFiles' = Cut(ToFront(IF recentStored THEN recentFiles
                                          ELSE <<>>, path))
            /\ recentStored' = TRUE
    /\ UNCHANGED recentRest

InitRecent ==
    /\ forecastStatus = "PENDING"
    /\ scenario = IdleScenario
    /\ WorkersIdle
    /\ FlowIdle
    /\ aggPc = "off"
    /\ SnapIdle
    /\ ExtIdle

NextRecent == \E path \in Paths \cup {NoPath} : OpenProjectAtPath(path)

SpecRecent == InitRecent /\ [][NextRecent]_vars

\* C26: the recent-files list holds at most 4 paths, holds no path twice,
\* and starts with the path opened last
C26_RecentFiles ==
    /\ Len(recentFiles) <= 4
    /\ \A i, j \in 1..Len(recentFiles) :
          recentFiles[i] = recentFiles[j] => i = j
    /\ lastOpened # NoPath =>
          (Len(recentFiles) > 0 /\ recentFiles[1] = lastOpened)

\* a full list after a path in its middle was opened again and a fifth path
\* had pushed one out
C26_Witness ==
    /\ opens >= 6
    /\ Len(recentFiles) = 4
    /\ recentFiles[1] = 2
    /\ recentFiles[2] = 5
    /\ \A i \in 1..4 : recentFiles[i] # 1


\* -------------------------------------------------------------- ModelClient
\* One SeismicityForecast work unit and its ModelClient. The client's
\* finished signal is connected directly to the unit's on_client_finished.

\* bound: calls of the unit's run()
MaxClientRuns == 3

\* bound: polls counted
MaxPolls == 3

\* what the worker answers to the dispatch request: a job id, a text that
\* is no number, a json object or null, or no answer at all
DispatchResponses == {"job_id", "text", "object", "failed"}

\* what a poll returns: json null, an empty object, a result, or no answer
\* at all
PollResponses == {"null", "empty", "result", "failed"}

\* int(response)
IntOf(response) ==
    CASE response = "job_id" -> "int"
      [] response = "text" -> "ValueError"
      [] OTHER -> "TypeError"

\* a poll that takes every answer for a result
UsableAny(r) == TRUE

\* if r: the truth value of the decoded answer
Usable(r) == r = "result"

\* SeismicityForecast.run -> ModelClient.run: post the forecast, keep the
\* job id and arm the first poll; only the ValueError of int() is caught
ClientRun(response) ==
    /\ mcRuns < MaxClientRuns
    /\ mcRuns' = mcRuns + 1
    /\ IF response = "failed" \/ IntOf(response) = "TypeError"
       THEN /\ mcRaised' = TRUE
            /\ UNCHANGED <<mcJobId, mcTimers, mcDispatched>>
       ELSE IF IntOf(response) = "ValueError"
       THEN /\ mcRaised' = FALSE
            /\ UNCHANGED <<mcJobId, mcTimers, mcDispatched>>
       ELSE /\ mcRaised' = FALSE
            /\ mcJobId' = response
            /\ mcTimers' = mcTimers + 1
            /\ mcDispatched' = mcDispatched + 1
    /\ UNCHANGED <<mcPolls, mcResult, mcFinished, mcReported, mcAborted,
                   mcRest>>

\* a poll timer fires: ModelClient._get_results, and through the finished
\* signal SeismicityForecast.on_client_finished
GetResults(r) ==
    /\ mcTimers > 0
    /\ mcPolls' = IF mcPolls < MaxPolls THEN mcPolls + 1 ELSE mcPolls
    /\ IF r = "failed"
       THEN /\ mcRaised' = TRUE
            /\ mcTimers' = mcTimers - 1
            /\ mcAborted' = mcAborted + 1
            /\ UNCHANGED <<mcResult, mcFinished, mcReported>>
       ELSE IF Usable(r)
       THEN /\ mcRaised' = FALSE
            /\ mcTimers' = mcTimers - 1
            /\ mcResult' = r
            /\ mcFinished' = mcFinished + 1
            /\ mcReported' = mcReported + 1
            /\ UNCHANGED mcAborted
       ELSE /\ mcRaised' = FALSE
            /\ UNCHANGED <<mcTimers, mcResult, mcFinished, mcReported,
                           mcAborted>>
    /\ UNCHANGED <<mcRuns, mcJobId, mcDispatched, mcRest>>

InitClient ==
    /\ forecastStatus = "PENDING"
    /\ scenario = IdleScenario
    /\ WorkersIdle
    /\ FlowIdle
    /\ aggPc = "off"
    /\ SnapIdle
    /\ ExtIdle

NextClient ==
    \/ \E response \in DispatchResponses : ClientRun(response)
    \/ \E r \in PollResponses : GetResults(r)

SpecClient == InitClient /\ [][NextClient]_vars

\* an armed timer fires, and the worker has a result at some poll
SpecClientFair ==
    /\ SpecClient
    /\ WF_vars(\E r \in PollResponses : GetResults(r))
    /\ SF_vars(GetResults("result"))

C35_UnitReportsFinished ==
    \A n \in 1..MaxClientRuns : (mcRuns >= n) ~> (mcReported >= n)


\* ----------------------------------------------------------- SeismicCatalog
\* bound: events in the catalog
MaxEvents == 3

\* bound: the latest date_time of an event
MaxEventTime == 3

EventTimes == 1..MaxEventTime

\* None as a bound of time_range
NoneTime == -1

\* datetime.min
datetime_min == 0

\* datetime.max
datetime_max == MaxEventTime + 1

RangeBounds == EventTimes \cup {NoneTime}

\* catalogs of n events
CatalogsOf(n) == [1..n -> EventTimes]

\* time_range[k] or default
OrDefault(bound, default) == IF bound = NoneTime THEN default ELSE bound

\* time_range[1] >= s.date_time >= time_range[0]
InRange(t, lo, hi) == hi >= t /\ t >= lo

\* list.remove(s): the first element equal to s goes
RemoveFirst(events, s) ==
    LET k == CHOOSE i \in 1..Len(events) :
                 /\ events[i] = s
                 /\ \A j \in 1..(i - 1) : events[j] # s
    IN  SubSeq(events, 1, k - 1) \o SubSeq(events, k + 1, Len(events))

RECURSIVE ClearFrom(_, _, _, _)
\* for s in to_delete: self.seismic_events.remove(s), where to_delete is a
\* generator over self.seismic_events: the list iterator is at position i
\* of the list as it is now
ClearFrom(events, i, lo, hi) ==
    IF i > Len(events) THEN events
    ELSE IF InRange(events[i], lo, hi)
    THEN ClearFrom(RemoveFirst(events, events[i]), i + 1, lo, hi)
    ELSE ClearFrom(events, i + 1, lo, hi)

\* SeismicCatalog.clear_events(time_range)
ClearEvents(lo, hi) ==
    /\ seismic_events' = ClearFrom(seismic_events, 1,
                                   OrDefault(lo, datetime_min),
                                   OrDefault(hi, datetime_max))
    /\ eventsBefore' = seismic_events
    /\ clearRange' = <<lo, hi>>
    /\ clearCalls' = 1
    /\ history_changed' = 1
    /\ UNCHANGED catRest

\* a catalog with any events
InitCat ==
    /\ forecastStatus = "PENDING"
    /\ scenario = IdleScenario
    /\ WorkersIdle
    /\ FlowIdle
    /\ aggPc = "off"
    /\ SnapIdle
    /\ SimIdle
    /\ JobIdle
    /\ DsIdle
    /\ OqIdle
    /\ StoreIdle
    /\ ConnIdle
    /\ DlgIdle
    /\ BndIdle
    /\ CsvIdle
    /\ RecentIdle
    /\ ClientIdle
    /\ ImporterIdle
    /\ SfmIdle
    /\ \E n \in 0..MaxEvents : seismic_events \in CatalogsOf(n)
    /\ eventsBefore = <<>>
    /\ clearRange = <<NoneTime, NoneTime>>
    /\ clearCalls = 0
    /\ history_changed = 0

NextCat ==
    \E lo \in RangeBounds, hi \in RangeBounds : ClearEvents(lo, hi)

SpecCat == InitCat /\ [][NextCat]_vars

\* the date_time lies within the range given to clear_events
WithinRange(t, range) ==
    /\ range[1] = NoneTime \/ t >= range[1]
    /\ range[2] = NoneTime \/ t <= range[2]

\* the events of a catalog that lie outside the range, in order
Outside(events, range) ==
    LET keep(t) == ~WithinRange(t, range)
    IN  SelectSeq(events, keep)

\* C37: after clear_events no event within the range is left, every event
\* outside the range is still there, and without a range the catalog is
\* empty
C37_ClearEvents ==
    clearCalls = 1 =>
        /\ \A i \in 1..Len(seismic_events) :
               ~WithinRange(seismic_events[i], clearRange)
        /\ seismic_events = Outside(eventsBefore, clearRange)
        /\ clearRange = <<NoneTime, NoneTime>> => seismic_events = <<>>


\* ---------------------------------------------------------------- importers
\* FDSNWSImporter and HYDWSImporter: the same code on two web services.

\* bound: import runs
MaxImports == 3

\* bound: the latest project time
MaxProjectTime == 2

Importers == {"fdsnws", "hydws"}

\* what client.get_events does: it returns a catalog or raises the
\* exception of the web service
FetchOutcomes == {"catalog", "exception"}

\* the value _run returns and the signals it emits itself:
\* nothing to do, a failed request, or the import results
RunResult(k, outcome) ==
    IF ~wsEnabled[k] \/ project_time[k] = 0
    THEN [ret |-> "None", emitted |-> <<>>, fetched |-> FALSE]
    ELSE IF outcome = "exception"
    THEN [ret |-> "None", emitted |-> <<"None">>, fetched |-> FALSE]
    ELSE [ret |-> "results", emitted |-> <<>>, fetched |-> TRUE]

\* import_fdsnws_data / import_hydws_data: results = self._run();
\* self.finished.emit(results)
ImportData(k, outcome) ==
    /\ importRuns < MaxImports
    /\ importRuns' = importRuns + 1
    /\ lastImporter' = k
    /\ LET r == RunResult(k, outcome)
       IN  /\ finishedPayloads' = Append(r.emitted, r.ret)
           /\ previous_end_time' =
                  IF r.fetched
                  THEN [previous_end_time EXCEPT ![k] = project_time[k]]
                  ELSE previous_end_time
    /\ UNCHANGED <<wsEnabled, project_time, impRest>>

\* the user settings enable or disable a web service
SetWsEnabled(k, enabled) ==
    /\ wsEnabled' = [wsEnabled EXCEPT ![k] = enabled]
    /\ UNCHANGED <<project_time, previous_end_time, finishedPayloads,
                   lastImporter, importRuns, impRest>>

\* the runner hands the project time to its importer before a run
SetProjectTime(k, t) ==
    /\ project_time' = [project_time EXCEPT ![k] = t]
    /\ UNCHANGED <<wsEnabled, previous_end_time, finishedPayloads,
                   lastImporter, importRuns, impRest>>

InitImp ==
    /\ forecastStatus = "PENDING"
    /\ scenario = IdleScenario
    /\ WorkersIdle
    /\ FlowIdle
    /\ aggPc = "off"
    /\ SnapIdle
    /\ ExtIdle

NextImp ==
    \/ \E k \in Importers, outcome \in FetchOutcomes : ImportData(k, outcome)
    \/ \E k \in Importers, enabled \in BOOLEAN : SetWsEnabled(k, enabled)
    \/ \E k \in Importers, t \in 1..MaxProjectTime : SetProjectTime(k, t)

SpecImp == InitImp /\ [][NextImp]_vars

\* C38: an import run emits finished exactly once, with the import results
\* or None
C38_FinishedOncePerImport ==
    importRuns > 0 =>
        /\ Len(finishedPayloads) = 1
        /\ finishedPayloads[1] \in {"results", "None"}


\* ------------------------------------------------------- SFM worker message
\* The message of _SFMWorkerIMessageSchema with its nested reservoir and
\* scenario and its model_parameters. A dict is a function on the keys it
\* holds; a value is a record that tells None, a scalar, a list and a dict
\* apart.

NoneValue == [kind |-> "None"]

Scalar == [kind |-> "scalar"]

EmptyList == [kind |-> "list", len |-> 0]

DictValue(items) == [kind |-> "dict", items |-> items]

\* the dicts that hold some of `keys`, each with one of `values`
DictsOver(keys, values) == UNION {[s -> values] : s \in SUBSET keys}

\* a reservoir: geom and event_rate, set or None
Reservoirs ==
    {DictValue(d) : d \in DictsOver({"geom", "event_rate"},
                                    {NoneValue, Scalar})}

\* the injection plan of a scenario, as the borehole serializer returns it
Wells == {DictValue(d) : d \in DictsOver({"sections"}, {EmptyList, Scalar})}

\* a scenario: its well, None or a dict
Scenarios ==
    {DictValue(d) : d \in DictsOver({"well"}, {NoneValue} \cup Wells)}

\* model_parameters: None or a dict of parameters
ModelParameters ==
    {NoneValue} \cup {DictValue(d) : d \in DictsOver({"a"}, {Scalar})}

\* the values a field of the message can hold
FieldValues(key) ==
    CASE key = "reservoir" -> {NoneValue} \cup Reservoirs
      [] key = "scenario" -> {NoneValue} \cup Scenarios
      [] key = "model_parameters" -> ModelParameters

MessageKeys == {"reservoir", "scenario", "model_parameters"}

\* data[key] in (None, {}, [])
IsMissing(value) ==
    \/ value.kind = "None"
    \/ value.kind = "dict" /\ DOMAIN value.items = {}
    \/ value.kind = "list" /\ value.len = 0

\* _SchemaBase._clear_missing(data)
clear_missing(data) ==
    [key \in {k \in DOMAIN data : ~IsMissing(data[k])} |-> data[key]]

\* the dump of _ReservoirSchema and _ScenarioSchema: every field the data
\* holds is written, None as null; these schemas have no post_dump hook
DumpNested(data) == [key \in DOMAIN data |-> data[key]]

\* fields.Nested of the message schema: None stays None
Nested(value) ==
    IF value.kind = "dict" THEN DictValue(DumpNested(value.items)) ELSE value

\* the field of the message schema under `key`
DumpField(key, value) ==
    IF key \in {"reservoir", "scenario"} THEN Nested(value) ELSE value

\* _SFMWorkerIMessageSchema.dump with its post_dump hook skip_missing
Dump(data) ==
    clear_missing([key \in DOMAIN data |-> DumpField(key, data[key])])

\* SFMWorkerIMessageSerializer._serialize(data)
Serialize ==
    /\ ~sfmDumped
    /\ sfmPayload' = Dump(sfmMessage)
    /\ sfmDumped' = TRUE
    /\ UNCHANGED <<sfmMessage, sfmRest>>

\* any message
InitSfm ==
    /\ forecastStatus = "PENDING"
    /\ scenario = IdleScenario
    /\ WorkersIdle
    /\ FlowIdle
    /\ aggPc = "off"
    /\ SnapIdle
    /\ SimIdle
    /\ JobIdle
    /\ DsIdle
    /\ OqIdle
    /\ StoreIdle
    /\ ConnIdle
    /\ DlgIdle
    /\ BndIdle
    /\ CsvIdle
    /\ RecentIdle
    /\ ClientIdle
    /\ CatalogIdle
    /\ ImporterIdle
    /\ \E keys \in SUBSET MessageKeys :
           \E m \in [keys -> UNION {FieldValues(k) : k \in MessageKeys}] :
               /\ \A k \in keys : m[k] \in FieldValues(k)
               /\ sfmMessage = m
    /\ sfmPayload = <<>>
    /\ sfmDumped = FALSE

NextSfm == Serialize

SpecSfm == InitSfm /\ [][NextSfm]_vars

\* no value of the dict is None, an empty dict or an empty list
NothingMissing(data) == \A key \in DOMAIN data : ~IsMissing(data[key])

\* C40: the serialized message holds no field that is None, an empty dict
\* or an empty list, neither at the top level nor in a nested dict
C40_NoMissingAtAnyLevel ==
    sfmDumped =>
        /\ NothingMissing(sfmPayload)
        /\ \A key \in DOMAIN sfmPayload :
               sfmPayload[key].kind = "dict"
                   => /\ NothingMissing(sfmPayload[key].items)
                      /\ \A k2 \in DOMAIN sfmPayload[key].items :
                             sfmPayload[key].items[k2].kind = "dict"
                                 => NothingMissing(sfmPayload[key].items[k2].items)

====
